---- MODULE Spec2Model ----
(***************************************************************************)
(* Revision-number cache, per-key lock and registry writes of skynet-js.   *)
(*                                                                         *)
(* The writes of MySky (setJSON, setEntryData, deleteJSON,                 *)
(* setJSONEncrypted) run a callback under                                  *)
(* revisionNumberCache.withCachedEntryLock; the key-signing setJSON of     *)
(* the older SkyDB module looks the revision up in the registry and uses   *)
(* neither lock nor cache.  Every await of the source is a step of the     *)
(* model, so that calls interleave exactly where the event loop lets them. *)
(***************************************************************************)
EXTENDS Integers, Sequences, FiniteSets, TLC

\* ------------------------------------------------------------------ bounds
\* Number of API calls of one process that are followed.
MaxCalls == 2
\* Largest revision of the model; stands for the largest 64-bit unsigned
\* revision the registry stores.
MaxRev == 2
\* Number of connectors whose initialisation is followed.
MaxConnectors == 3
\* Length of the raw payload of a link, in bytes; stands for the fixed size
\* of the digest with its bitfield.
RawBytes == 2
BitsPerByte == 4

Calls == 1..MaxCalls
\* The (publicKey, dataKey) pairs.
Keys == {"k1", "k2"}
\* The pair the calls of the single-key specifications work on.
OneKey == {"k1"}

\* ------------------------------------------------------------- vocabulary
\* Registry revision of a key that has no entry; also the cached
\* "no entry yet" value.
NoEntry == -1
\* A callback result that carries no revision.
NoRevision == -2
\* setJSON(privateKey, dataKey, json, revision?) called without revision.
NoArg == -1

\* The writes of MySky.  deleteJSON calls setEntryData with the deletion
\* data, and setJSONEncrypted runs the steps of setJSON with
\* signEncryptedRegistryEntry as the signing request: the two records stand
\* for the four methods.
MySkyWrites == {"setJSON", "setEntryData"}
\* The writes whose callback uploads a file through
\* getOrCreateSkyDBRegistryEntry.
Uploading == {"setJSON"}
RevArgs == {NoArg, 0, 1}

Errors == {"ConflictError", "TransportError", "UploadError", "SignError",
           "RevisionError", "TrustError"}

\* The JSON documents that are written, and the content link the blob
\* store gives each of them.
Docs == {"j1", "j2"}
Skylinks == {"A1", "A2"}
SkylinkOf == [j \in Docs |-> IF j = "j1" THEN "A1" ELSE "A2"]
\* null and undefined.
Null == "null"
Undefined == "undefined"
\* Entry data that is no link: the deletion sentinel.
DELETION_ENTRY_DATA == "deleted"
\* The maximum length for entry data when setting entry data.
MAX_ENTRY_LENGTH == 70
\* The lengths of the data passed to setEntryData.
DataLengths == {0, MAX_ENTRY_LENGTH, MAX_ENTRY_LENGTH + 1}
\* A call that has not returned.
\* value: what the call returned (Null, a document, "object" for an object
\* literal, "none" while it has not returned); data, dataLink: the
\* properties of a returned object literal.
NoReturn == [value |-> "none", data |-> Undefined, dataLink |-> Undefined]
\* json: the document passed to a write; link: the entry data a write
\* publishes, the skylink a read parsed from the entry; bad: the signature
\* of the lookup's response did not verify; len: the length of the data
\* passed to setEntryData.
NoIO == [json |-> Null, link |-> Null, bad |-> FALSE, len |-> 0,
         ret |-> NoReturn]

VARIABLES
    registry,   \* [Keys -> NoEntry..MaxRev]: revision the registry stores
    cache,      \* [Keys -> [known, revision]]: the revision number cache
    holder,     \* [Keys -> 0..MaxCalls]: call that holds the key's lock, 0 = free
    queue,      \* [Keys -> Seq(Calls)]: calls waiting for the key's lock
    call,       \* [Calls -> record]: position and locals of every call
    history,    \* [Keys -> Seq(revision)]: revisions the registry accepted
    entryData,  \* [Keys -> data]: data of the entry the registry stores
    io,         \* [Calls -> [json, ret]]: document passed to and value
                \* returned by a call
    resolvedPortalUrl,  \* SkynetClient.resolvedPortalUrl, shared by all clients
    requests,   \* [Clients -> Nat]: requests for the portal URL each issued
    portalCall, \* [Calls -> record]: the calls of portalUrl / initPortalUrl
    instance,   \* MySky.instance: 0 for null, or the instance
    connectors, \* number of connectors that Connector.init was called for
    mySkyCall,  \* [Calls -> record]: the calls of MySky.New
    codec,      \* a payload and what format, decode and parse made of it
    download,   \* a skylink URL, the options and the URL a call built
    login,      \* the MySky instance, its UI window and its login call
    callerQuery \* a query object of the caller and the calls it was passed to

vars == <<registry, cache, holder, queue, call, history, entryData, io,
          resolvedPortalUrl, requests, portalCall,
          instance, connectors, mySkyCall, codec, download,
          login, callerQuery>>

\* The variables of the documents.
docVars == <<entryData, io>>

\* The variables of revisions, locks and documents.
dbVars == <<registry, cache, holder, queue, call, history, entryData, io>>

\* The clients.  `given` was constructed with a portal URL, the others
\* without one.
Clients == {"given", "default1", "default2"}
\* defaultPortalUrl() and the URL passed to new SkynetClient(url).
DefaultPortal == "https://siasky.net"
CustomPortal == "https://custom.portal"
givenPortalUrl == [cl \in Clients |-> IF cl = "given" THEN CustomPortal ELSE ""]
initialPortalUrl ==
    [cl \in Clients |-> IF cl = "given" THEN CustomPortal ELSE DefaultPortal]
\* The `skynet-portal-api` header in the response of each portal.
PortalApi ==
    [u \in {DefaultPortal, CustomPortal} |->
        IF u = DefaultPortal THEN "https://api.siasky.net"
        ELSE "https://api.custom.portal"]

\* resolvedPortalUrl before the first request.  state: undefined, or the
\* state of the promise; inflight: the request has not been answered;
\* from: the URL the request went to; value: what the promise resolved to.
NoPortalUrl ==
    [state |-> "undefined", inflight |-> FALSE, from |-> "", value |-> ""]
IdlePortalCall ==
    [pc |-> "idle", op |-> "none", client |-> "given", result |-> "none",
     ret |-> ""]
\* instance: the instance the call returned, 0 for none; conn: the connector
\* the call initialised.
IdleMySkyCall == [pc |-> "idle", conn |-> 0, result |-> "none", instance |-> 0]

\* The variables of the portal URL and of the MySky singleton.
portalVars == <<resolvedPortalUrl, requests, portalCall>>
mySkyVars == <<instance, connectors, mySkyCall>>
linkVars == <<codec, download>>
sessionVars == <<login, callerQuery>>
clientVars == <<portalVars, mySkyVars, linkVars, sessionVars>>

\* No payload and no URL.
NoCodec ==
    [stage |-> "none", payload |-> <<>>, text |-> <<>>, bytes |-> <<>>,
     again |-> <<>>, link |-> <<>>, path |-> <<>>, err |-> "none"]
NoInput ==
    [prefix |-> <<>>, link |-> <<>>, path |-> <<>>, trailing |-> <<>>,
     query |-> <<>>, fragment |-> <<>>, valid |-> FALSE]
NoDownload ==
    [op |-> "none", input |-> NoInput, text |-> <<>>, opt |-> "unset",
     clientOpt |-> "unset", err |-> "none", url |-> <<>>]

\* The query object of a caller before any call.  obj: the parameters the
\* object holds; calls: the calls it was passed to, each with its download
\* and noResponseMetadata options and the URL it returned.
NoQuery == [obj |-> {}, calls |-> <<>>]

\* The permissions: of the skapp, and of a DAC.
Permissions == {"p1", "p2"}
\* The DAC libraries and what getPermissions() of each returns.
Dacs == {"d1", "d2"}
DacPermissions == [d \in Dacs |-> IF d = "d1" THEN {"p2"} ELSE {}]
\* No response of the UI in flight.
NoResponse == [seedFound |-> FALSE, granted |-> {}, failed |-> {}, sent |-> FALSE]

\* A MySky instance nobody has logged in to.
\* granted, pending, dacs: grantedPermissions, pendingPermissions and dacs
\* of the instance; dacState: where loadDac of each DAC is.
\* pc, op, result: the login call; n: login calls made; sent: the
\* permissions the call sent; seedFound: the local of requestLoginAccess;
\* exit: how the promise of requestLoginAccess settled; uiWindow,
\* uiConnection, listener: the window, the connection and the window-error
\* listener of the call; response: the response of the UI on its way;
\* awaiting: the executor awaits the response; got: the response the call
\* processed; handled: handleLogin ran with loggedIn true; invoked, raised:
\* the DACs whose onUserLogin was invoked, and raised.
NoLogin ==
    [granted |-> {}, pending |-> {}, dacs |-> {},
     dacState |-> [d \in Dacs |-> "none"],
     pc |-> "idle", op |-> "none", n |-> 0, result |-> "none", sent |-> {},
     seedFound |-> FALSE, exit |-> "none",
     uiWindow |-> "none", uiConnection |-> "none", listener |-> "none",
     response |-> NoResponse, awaiting |-> FALSE, got |-> NoResponse,
     handled |-> FALSE, invoked |-> {}, raised |-> {}]

\* The entry a signature was returned for: none.
NoSignature == [key |-> "", rev |-> NoRevision, data |-> Null]

\* pc: where the call is; rev: newRevision of a write, the fetched revision
\* of a read; arg: the revision argument of the key-signing setJSON;
\* result: how the call settled; npub: publish requests it issued; waited:
\* the caller still awaits the promise the call returned; signed: the entry
\* the signing request of the call returned a signature for.
IdleCall ==
    [pc |-> "idle", op |-> "none", key |-> "k1", rev |-> NoRevision,
     arg |-> NoArg, result |-> "none", npub |-> 0, waited |-> TRUE,
     signed |-> NoSignature]

InitClient ==
    /\ registry = [k \in Keys |-> NoEntry]
    /\ cache = [k \in Keys |-> [known |-> FALSE, revision |-> NoEntry]]
    /\ holder = [k \in Keys |-> 0]
    /\ queue = [k \in Keys |-> <<>>]
    /\ call = [c \in Calls |-> IdleCall]
    /\ history = [k \in Keys |-> <<>>]
    /\ entryData = [k \in Keys |-> Null]
    /\ io = [c \in Calls |-> NoIO]
    /\ resolvedPortalUrl = NoPortalUrl
    /\ requests = [cl \in Clients |-> 0]
    /\ portalCall = [c \in Calls |-> IdlePortalCall]
    /\ instance = 0
    /\ connectors = 0
    /\ mySkyCall = [c \in Calls |-> IdleMySkyCall]

\* No login call made, no query object passed.
InitSession ==
    /\ login = NoLogin
    /\ callerQuery = NoQuery

Init ==
    /\ InitClient
    /\ codec = NoCodec
    /\ download = NoDownload
    /\ InitSession

\* ---------------------------------------------------------------- registry
\* A registry that also takes a publish whose revision equals the stored one.
RegistryAcceptsEqual(stored, rev) == rev >= stored

\* The registry accepts a publish only with a revision strictly greater
\* than the one it stores.
RegistryAccepts(stored, rev) == rev > stored

\* The revision is a 64-bit unsigned integer on the wire.
ValidRevision(rev) == rev >= 0 /\ rev <= MaxRev

Accept(k, rev) ==
    /\ registry' = [registry EXCEPT ![k] = rev]
    /\ history' = [history EXCEPT ![k] = Append(@, rev)]

\* ------------------------------------------------------------ the cache
\* An incrementRevision without the check of the maximum.
CanIncrementAlways(rev) == TRUE

\* incrementRevision: the next revision; raises at the maximum.
CanIncrement(rev) == rev < MaxRev
incrementRevision(rev) == rev + 1

\* An observe that stores whatever the read revealed.
observeOverwrite(entry, r) == [known |-> TRUE, revision |-> r]

\* observe: a read revealed revision r.
observe(entry, r) ==
    IF r > entry.revision THEN [known |-> TRUE, revision |-> r] ELSE entry

\* Step 4 of withCachedEntryLock: commit the revision the operation returned.
CommitRevision(entry, returned) ==
    IF returned = NoRevision \/ returned <= entry.revision
    THEN entry
    ELSE [known |-> TRUE, revision |-> returned]

\* The revision the MySky callbacks hand back with their result:
\* `return { data: json, dataLink }`, `return { data: entry.data }` and
\* `return { data: json }` carry none, and no callback assigns
\* cachedRevisionEntry.revision.
CallbackRevision(newRevision) == NoRevision

\* A write method that catches what its awaits raise and resolves.
PropagateSwallowed(err) == "ok"

\* Outcome of the API call when a step raised `err`: there is no catch
\* around the awaits of the write methods.
Propagate(err) == err

\* --------------------------------------------------------------- helpers
KeyOf(c) == call[c].key

\* The pcs at which a call holds the lock of its key.
LockHeld == {"seed", "callback", "upload", "sign", "post"}
\* The pcs at which the callback passed to withCachedEntryLock has read the
\* cached revision and not yet completed.
InCallback == {"upload", "sign", "post"}

\* A new call takes the record of a settled call, or the first unused one.
Free(c) ==
    \/ call[c].pc = "done"
    \/ call[c].pc = "idle" /\ \A d \in Calls : d < c => call[d].pc # "idle"

\* The call settles with res.  A settled call keeps its result and, when it
\* succeeded, the revision it published.
Finish(c, rec, res) ==
    LET out == IF res = "ok" THEN "ok" ELSE Propagate(res) IN
    call' = [call EXCEPT ![c] =
                [rec EXCEPT !.pc = "done",
                            !.rev = IF out = "ok" THEN @ ELSE NoRevision,
                            !.arg = NoArg,
                            !.result = out]]

\* ------------------------------------------------- withCachedEntryLock
\* A mutex that is never seen as taken.
LockAlwaysFree(k) == TRUE

\* One mutex for all keys.
LockFreeForAll(k) == \A k2 \in Keys : holder[k2] = 0

\* The key's mutex is free.
LockFree(k) == holder[k] = 0

\* An exit that releases the lock after the commit only, so that an
\* operation that raised leaves it held.
withCachedEntryLock_exitOnSuccess(c, rec, res, ret) ==
    /\ Finish(c, rec, res)
    /\ holder' = [holder EXCEPT ![rec.key] = IF res = "ok" THEN 0 ELSE @]
    /\ cache' = [cache EXCEPT ![rec.key] =
                    IF res = "ok" THEN CommitRevision(@, ret) ELSE @]

\* Steps 4 to 6 of withCachedEntryLock: the operation of call c ended with
\* res (ok or the error it raised) and returned revision ret.  The cache is
\* committed on success only, the lock is released on every path.
withCachedEntryLock_exit(c, rec, res, ret) ==
    /\ Finish(c, rec, res)
    /\ holder' = [holder EXCEPT ![rec.key] = 0]
    /\ cache' = [cache EXCEPT ![rec.key] =
                    IF res = "ok" THEN CommitRevision(@, ret) ELSE @]

\* An acquisition that fails at once when the mutex is not available.
withCachedEntryLock_tryAcquire(c) ==
    LET k == KeyOf(c) IN
    /\ call[c].pc = "waiting"
    /\ IF LockFree(k) /\ Head(queue[k]) = c
       THEN /\ holder' = [holder EXCEPT ![k] = c]
            /\ queue' = [queue EXCEPT ![k] = Tail(@)]
            /\ call' = [call EXCEPT ![c].pc =
                           IF cache[k].known THEN "callback" ELSE "seed"]
       ELSE /\ Finish(c, call[c], "LockUnavailable")
            /\ queue' = [queue EXCEPT ![k] = SelectSeq(@, LAMBDA x : x # c)]
            /\ UNCHANGED holder
    /\ UNCHANGED <<registry, cache, history>>

\* Step 1: the call at the head of the queue takes the free lock.
withCachedEntryLock_acquire(c) ==
    LET k == KeyOf(c) IN
    /\ call[c].pc = "waiting"
    /\ queue[k] # <<>> /\ Head(queue[k]) = c
    /\ LockFree(k)
    /\ holder' = [holder EXCEPT ![k] = c]
    /\ queue' = [queue EXCEPT ![k] = Tail(@)]
    /\ call' = [call EXCEPT ![c].pc =
                   IF cache[k].known THEN "callback" ELSE "seed"]
    /\ UNCHANGED <<registry, cache, history>>

\* Step 2: an unknown cached revision is seeded from the registry.
withCachedEntryLock_seed(c) ==
    LET k == KeyOf(c) IN
    /\ call[c].pc = "seed"
    /\ \/ /\ cache' = [cache EXCEPT ![k] =
                          IF @.known THEN @
                          ELSE [known |-> TRUE, revision |-> registry[k]]]
          /\ call' = [call EXCEPT ![c].pc = "callback"]
          /\ UNCHANGED holder
       \/ withCachedEntryLock_exit(c, call[c], "TransportError", NoRevision)
    /\ UNCHANGED <<registry, queue, history>>

\* ------------------------------------------------------ MySky writes
\* MySky.setJSON / setEntryData up to the call of withCachedEntryLock,
\* which queues the call on the key's mutex.
MySkyWrite(c, o, k) ==
    /\ Free(c)
    /\ o \in MySkyWrites
    /\ call' = [call EXCEPT ![c] =
                   [IdleCall EXCEPT !.pc = "waiting", !.op = o, !.key = k]]
    /\ queue' = [queue EXCEPT ![k] = Append(@, c)]
    /\ UNCHANGED <<registry, cache, holder, history>>

\* A callback that stores newRevision in the cache entry before the
\* entry is published.
callback_incrementRevisionEarly(c) ==
    LET k == KeyOf(c) IN
    /\ call[c].pc = "callback"
    /\ IF CanIncrement(cache[k].revision)
       THEN /\ call' = [call EXCEPT
                           ![c].rev = incrementRevision(cache[k].revision),
                           ![c].pc = IF call[c].op \in Uploading
                                     THEN "upload" ELSE "sign"]
            /\ cache' = [cache EXCEPT
                            ![k].revision = incrementRevision(cache[k].revision)]
            /\ UNCHANGED holder
       ELSE withCachedEntryLock_exit(c, call[c], "RevisionError", NoRevision)
    /\ UNCHANGED <<registry, queue, history>>

\* A callback that publishes the cached revision as it is.
callback_cachedRevision(c) ==
    LET k == KeyOf(c) IN
    /\ call[c].pc = "callback"
    /\ call' = [call EXCEPT ![c].rev = cache[k].revision,
                            ![c].pc = IF call[c].op \in Uploading
                                      THEN "upload" ELSE "sign"]
    /\ UNCHANGED <<registry, cache, holder, queue, history>>

\* The callback reads the cached revision before doing anything else.
callback_incrementRevision(c) ==
    LET k == KeyOf(c) IN
    /\ call[c].pc = "callback"
    /\ IF CanIncrement(cache[k].revision)
       THEN /\ call' = [call EXCEPT
                           ![c].rev = incrementRevision(cache[k].revision),
                           ![c].pc = IF call[c].op \in Uploading
                                     THEN "upload" ELSE "sign"]
            /\ UNCHANGED <<holder, cache>>
       ELSE withCachedEntryLock_exit(c, call[c], "RevisionError", NoRevision)
    /\ UNCHANGED <<registry, queue, history>>

\* await getOrCreateSkyDBRegistryEntry(...): uploads the file.
getOrCreateSkyDBRegistryEntry(c) ==
    /\ call[c].pc = "upload"
    /\ \/ /\ call' = [call EXCEPT ![c].pc = "sign"]
          /\ UNCHANGED <<holder, cache>>
       \/ withCachedEntryLock_exit(c, call[c], "UploadError", NoRevision)
    /\ UNCHANGED <<registry, queue, history>>

\* A signing request whose failure is caught: the callback goes on to
\* publish the entry without a signature for it.
signRegistryEntryCaught(c) ==
    /\ call[c].pc = "sign"
    /\ \/ call' = [call EXCEPT ![c].pc = "post",
                               ![c].signed = [key |-> KeyOf(c),
                                              rev |-> call[c].rev,
                                              data |-> io[c].link]]
       \/ call' = [call EXCEPT ![c].pc = "post"]
    /\ UNCHANGED <<registry, holder, cache, queue, history>>

\* const signature = await this.signRegistryEntry(entry, path): the
\* signature MySky returns is for the entry passed, and a refusal raises.
signRegistryEntry(c) ==
    /\ call[c].pc = "sign"
    /\ \/ /\ call' = [call EXCEPT ![c].pc = "post",
                                  ![c].signed = [key |-> KeyOf(c),
                                                 rev |-> call[c].rev,
                                                 data |-> io[c].link]]
          /\ UNCHANGED <<holder, cache>>
       \/ withCachedEntryLock_exit(c, call[c], "SignError", NoRevision)
    /\ UNCHANGED <<registry, queue, history>>

\* A publish that is issued again when the registry rejected it.
postSignedEntryRetry(c) ==
    LET k == KeyOf(c)
        rec == [call[c] EXCEPT !.npub = @ + 1]
    IN
    /\ call[c].pc = "post"
    /\ \/ /\ withCachedEntryLock_exit(c, rec, "TransportError", NoRevision)
          /\ UNCHANGED <<registry, history>>
       \/ /\ RegistryAccepts(registry[k], rec.rev)
          /\ Accept(k, rec.rev)
          /\ withCachedEntryLock_exit(c, rec, "ok", CallbackRevision(rec.rev))
       \/ /\ ~RegistryAccepts(registry[k], rec.rev)
          /\ IF rec.npub < 2
             THEN call' = [call EXCEPT ![c] = rec] /\ UNCHANGED <<holder, cache>>
             ELSE withCachedEntryLock_exit(c, rec, "ConflictError", NoRevision)
          /\ UNCHANGED <<registry, history>>
    /\ UNCHANGED queue

\* await registry.postSignedEntry(publicKey, entry, signature) and the
\* return of the callback.
postSignedEntry(c) ==
    LET k == KeyOf(c)
        rec == [call[c] EXCEPT !.npub = @ + 1]
    IN
    /\ call[c].pc = "post"
    /\ \/ /\ withCachedEntryLock_exit(c, rec, "TransportError", NoRevision)
          /\ UNCHANGED <<registry, history>>
       \/ /\ RegistryAccepts(registry[k], rec.rev)
          /\ Accept(k, rec.rev)
          /\ withCachedEntryLock_exit(c, rec, "ok", CallbackRevision(rec.rev))
       \/ /\ ~RegistryAccepts(registry[k], rec.rev)
          /\ withCachedEntryLock_exit(c, rec, "ConflictError", NoRevision)
          /\ UNCHANGED <<registry, history>>
    /\ UNCHANGED queue

\* ------------------------------------------- key-signing setJSON (SkyDB)
\* `if (!revision)`: true of an omitted revision and of 0.
NotRevision(a) == a = NoArg \/ a = 0

\* setJSON(privateKey, dataKey, json, revision?) is called.
setJSON(c, k, a) ==
    /\ Free(c)
    /\ call' = [call EXCEPT ![c] =
                   [IdleCall EXCEPT !.pc = "dbUpload", !.op = "dbSetJSON",
                                    !.key = k, !.arg = a]]
    /\ UNCHANGED <<registry, cache, holder, queue, history>>

\* await this.uploadFileRequest(file, this.customOptions).
setJSON_upload(c) ==
    /\ call[c].pc = "dbUpload"
    /\ \/ call' = [call EXCEPT ![c] =
                      IF NotRevision(call[c].arg)
                      THEN [call[c] EXCEPT !.pc = "dbLookup"]
                      ELSE [call[c] EXCEPT !.pc = "dbSetEntry",
                                           !.rev = call[c].arg]]
       \/ Finish(c, call[c], "UploadError")
    /\ UNCHANGED <<registry, cache, holder, queue, history>>

\* A lookup that starts a key without entry at revision 1.
setJSON_getEntryFromOne(c) ==
    LET k == KeyOf(c) IN
    /\ call[c].pc = "dbLookup"
    /\ \/ call' = [call EXCEPT ![c].pc = "dbSetEntry",
                               ![c].rev = registry[k] + 2]
       \/ Finish(c, call[c], "TransportError")
    /\ UNCHANGED <<registry, cache, holder, queue, history>>

\* The lookup of the current entry: revision = entry.revision + 1, or 0;
\* `could not verify signature` is raised for an entry whose signature
\* does not verify.
setJSON_getEntry(c) ==
    LET k == KeyOf(c) IN
    /\ call[c].pc = "dbLookup"
    /\ \/ call' = [call EXCEPT ![c].pc = "dbSetEntry",
                               ![c].rev = IF registry[k] # NoEntry
                                          THEN registry[k] + 1 ELSE 0]
       \/ Finish(c, call[c], "TransportError")
       \/ registry[k] # NoEntry /\ Finish(c, call[c], "TrustError")
    /\ UNCHANGED <<registry, cache, holder, queue, history>>

\* A setEntry whose rejection is not awaited: the call resolves although
\* the registry took nothing.
setJSON_setEntryUnawaited(c) ==
    LET k == KeyOf(c)
        rec == [call[c] EXCEPT !.npub = @ + 1]
    IN
    /\ call[c].pc = "dbSetEntry"
    /\ \/ /\ RegistryAccepts(registry[k], rec.rev) /\ ValidRevision(rec.rev)
          /\ Accept(k, rec.rev)
       \/ UNCHANGED <<registry, history>>
    /\ Finish(c, rec, "ok")
    /\ UNCHANGED <<cache, holder, queue>>

\* await this.registry.setEntry(publicKey, dataKey, entry, signature).
setJSON_setEntry(c) ==
    LET k == KeyOf(c)
        rec == [call[c] EXCEPT !.npub = @ + 1]
    IN
    /\ call[c].pc = "dbSetEntry"
    /\ \/ /\ Finish(c, rec, "TransportError")
          /\ UNCHANGED <<registry, history>>
       \/ /\ ~ValidRevision(rec.rev)
          /\ Finish(c, call[c], "RevisionError")
          /\ UNCHANGED <<registry, history>>
       \/ /\ ValidRevision(rec.rev)
          /\ RegistryAccepts(registry[k], rec.rev)
          /\ Accept(k, rec.rev)
          /\ Finish(c, rec, "ok")
       \/ /\ ValidRevision(rec.rev)
          /\ ~RegistryAccepts(registry[k], rec.rev)
          /\ Finish(c, rec, "ConflictError")
          /\ UNCHANGED <<registry, history>>
    /\ UNCHANGED <<cache, holder, queue>>

\* ------------------------------------------------------------- reads
\* MySky.getJSON: the registry lookup of db.getJSON.
getJSON_getEntry(c, k) ==
    /\ Free(c)
    /\ LET rec == [IdleCall EXCEPT !.op = "getJSON", !.key = k] IN
       \/ call' = [call EXCEPT ![c] =
                      [rec EXCEPT !.pc = "observe", !.rev = registry[k]]]
       \/ Finish(c, rec, "TransportError")
    /\ UNCHANGED <<registry, cache, holder, queue, history>>

\* The read shows the revision of the entry it fetched to the cache; a
\* lookup that found no entry reveals no revision.
getJSON_observe(c) ==
    LET k == KeyOf(c) IN
    /\ call[c].pc = "observe"
    /\ cache' = [cache EXCEPT ![k] =
                    IF call[c].rev # NoEntry THEN observe(@, call[c].rev) ELSE @]
    /\ Finish(c, call[c], "ok")
    /\ UNCHANGED <<registry, holder, queue, history>>

\* ----------------------------------------------------- other processes
\* A writer of another process or tab publishes the next revision.
OtherProcessPublish(k) ==
    /\ registry[k] < MaxRev
    /\ Accept(k, registry[k] + 1)
    /\ UNCHANGED <<cache, holder, queue, call>>

\* ------------------------------------------------------ specifications
\* The steps of a MySky write after it was queued.
MySkyStep(c) ==
    \/ withCachedEntryLock_acquire(c)
    \/ withCachedEntryLock_seed(c)
    \/ callback_incrementRevision(c)
    \/ getOrCreateSkyDBRegistryEntry(c)
    \/ signRegistryEntry(c)
    \/ postSignedEntry(c)

\* The steps of the key-signing setJSON after its call.
DbStep(c) ==
    \/ setJSON_upload(c)
    \/ setJSON_getEntry(c)
    \/ setJSON_setEntry(c)

\* MySky writes, reads and a writer of another process on one key.
Next ==
    \/ \E c \in Calls, o \in MySkyWrites, k \in OneKey : MySkyWrite(c, o, k) /\ UNCHANGED <<docVars, clientVars>>
    \/ \E c \in Calls : MySkyStep(c) /\ UNCHANGED <<docVars, clientVars>>
    \/ \E c \in Calls, k \in OneKey : getJSON_getEntry(c, k) /\ UNCHANGED <<docVars, clientVars>>
    \/ \E c \in Calls : getJSON_observe(c) /\ UNCHANGED <<docVars, clientVars>>
    \/ \E k \in OneKey : OtherProcessPublish(k) /\ UNCHANGED <<docVars, clientVars>>

Spec == Init /\ [][Next]_vars

\* MySky writes on one key next to a writer of another process.
WriteNext ==
    \/ \E c \in Calls, o \in MySkyWrites, k \in OneKey : MySkyWrite(c, o, k) /\ UNCHANGED <<docVars, clientVars>>
    \/ \E c \in Calls : MySkyStep(c) /\ UNCHANGED <<docVars, clientVars>>
    \/ \E k \in OneKey : OtherProcessPublish(k) /\ UNCHANGED <<docVars, clientVars>>

\* The event loop runs every continuation that is ready, and the
\* collaborators answer every request.
LiveSpec ==
    /\ Init /\ [][WriteNext]_vars
    /\ \A c \in Calls : WF_vars(MySkyStep(c) /\ UNCHANGED <<docVars, clientVars>>)

\* No call has gone past its first await.
AllAtStart == \A d \in Calls : call[d].pc \in {"idle", "waiting", "dbUpload"}

\* setJSON calls, of MySky and of the key-signing SkyDB, that are started
\* together on one key before any of them goes on.
ConcurrentNext ==
    \/ \E c \in Calls, k \in OneKey : AllAtStart /\ MySkyWrite(c, "setJSON", k) /\ UNCHANGED <<docVars, clientVars>>
    \/ \E c \in Calls, k \in OneKey, a \in RevArgs : AllAtStart /\ setJSON(c, k, a) /\ UNCHANGED <<docVars, clientVars>>
    \/ \E c \in Calls : MySkyStep(c) /\ UNCHANGED <<docVars, clientVars>>
    \/ \E c \in Calls : DbStep(c) /\ UNCHANGED <<docVars, clientVars>>
    \/ \E k \in OneKey : OtherProcessPublish(k) /\ UNCHANGED <<docVars, clientVars>>

ConcurrentSpec == Init /\ [][ConcurrentNext]_vars

\* ------------------------------------- documents of the key-signing SkyDB
\* The specifications above follow revisions and locks only and leave the
\* data of the entries out; the ones below follow the documents as well.

\* trimUriPrefix(skylink, uriSkynetPrefix): the link without `sia:`.
trimUriPrefix(skylink) == skylink[2]
\* The skylink of the upload response for document j.
uploadFileRequest(j) == <<"sia:", SkylinkOf[j]>>
\* parseSkylink: the link in the data of an entry.
parseSkylink(data) == IF data \in Skylinks THEN data ELSE Null
\* The content of the blob the skylink addresses.
getFileContent(skylink) == CHOOSE j \in Docs : SkylinkOf[j] = skylink

\* What a lookup can receive for a key: the stored entry with its
\* signature, or, from a portal that tampers, any data with a signature
\* that does not verify.
Responses(k) ==
    {[data |-> entryData[k], sigOk |-> TRUE]}
        \cup [data : Skylinks, sigOk : {FALSE}]

\* registry.getEntry without its verification: the response is returned as
\* it came.
getEntryUnverified(resp) == [err |-> "none", data |-> resp.data]

\* registry.getEntry: null for `no such entry`; a TrustError for a response
\* whose signature does not verify; the entry otherwise.
getEntry(resp) ==
    IF resp.data = Null THEN [err |-> "none", data |-> Null]
    ELSE IF resp.sigOk THEN [err |-> "none", data |-> resp.data]
    ELSE [err |-> "TrustError", data |-> Null]

\* The call returns v.
Return(c, v) == io' = [io EXCEPT ![c].ret = v]

\* setJSON(privateKey, dataKey, json): the call with its document.
setJSON_json(c, k, a, j) ==
    /\ setJSON(c, k, a)
    /\ io' = [io EXCEPT ![c] = [NoIO EXCEPT !.json = j]]
    /\ UNCHANGED entryData

\* The entry that setEntry publishes carries
\* data: trimUriPrefix(skylink, uriSkynetPrefix); setJSON returns nothing.
setJSON_setEntryData(c) ==
    LET k == KeyOf(c) IN
    /\ setJSON_setEntry(c)
    /\ entryData' = IF history'[k] # history[k]
                    THEN [entryData EXCEPT
                             ![k] = trimUriPrefix(uploadFileRequest(io[c].json))]
                    ELSE entryData
    /\ IF call'[c].result = "ok"
       THEN Return(c, [NoReturn EXCEPT !.value = Undefined])
       ELSE UNCHANGED io

\* getJSON(publicKey, dataKey) is called.
getJSON(c, k) ==
    /\ Free(c)
    /\ call' = [call EXCEPT ![c] =
                   [IdleCall EXCEPT !.pc = "gjLookup", !.op = "dbGetJSON",
                                    !.key = k]]
    /\ io' = [io EXCEPT ![c] = NoIO]
    /\ UNCHANGED <<registry, cache, holder, queue, history, entryData>>

\* await this.registry.getEntry(publicKey, dataKey);
\* if (entry === null) return null; parseSkylink(entry.entry.data).
\* For data that is no link, parseSkylink raises or hands on what the
\* download cannot fetch.
getJSON_lookup(c) ==
    LET k == KeyOf(c) IN
    /\ call[c].pc = "gjLookup"
    /\ \/ Finish(c, call[c], "TransportError") /\ UNCHANGED io
       \/ \E resp \in Responses(k) :
             LET got == getEntry(resp)
                 seen == [io[c] EXCEPT !.bad = ~resp.sigOk]
             IN
             IF got.err # "none"
             THEN Finish(c, call[c], got.err) /\ io' = [io EXCEPT ![c] = seen]
             ELSE IF got.data = Null
             THEN /\ Finish(c, call[c], "ok")
                  /\ io' = [io EXCEPT ![c] =
                               [seen EXCEPT !.ret = [NoReturn EXCEPT !.value = Null]]]
             ELSE \/ /\ call' = [call EXCEPT ![c].pc = "gjDownload"]
                     /\ io' = [io EXCEPT ![c] =
                                  [seen EXCEPT !.link = parseSkylink(got.data)]]
                  \/ /\ parseSkylink(got.data) = Null
                     /\ Finish(c, call[c], "FormatError")
                     /\ io' = [io EXCEPT ![c] = seen]
    /\ UNCHANGED <<registry, cache, holder, queue, history, entryData>>

\* await this.executeRequest({ url: this.getSkylinkUrl(skylink) });
\* return response.data.
getJSON_executeRequest(c) ==
    /\ call[c].pc = "gjDownload"
    /\ \/ Finish(c, call[c], "TransportError") /\ UNCHANGED io
       \/ /\ io[c].link # Null
          /\ Finish(c, call[c], "ok")
          /\ Return(c, [NoReturn EXCEPT !.value = getFileContent(io[c].link)])
    /\ UNCHANGED <<registry, cache, holder, queue, history, entryData>>

\* Writes and reads of documents through the key-signing SkyDB, on one key.
SkyDBNext ==
    \/ \E c \in Calls, k \in OneKey, j \in Docs : setJSON_json(c, k, NoArg, j) /\ UNCHANGED clientVars
    \/ \E c \in Calls : setJSON_upload(c) /\ UNCHANGED <<docVars, clientVars>>
    \/ \E c \in Calls : setJSON_getEntry(c) /\ UNCHANGED <<docVars, clientVars>>
    \/ \E c \in Calls : setJSON_setEntryData(c) /\ UNCHANGED clientVars
    \/ \E c \in Calls, k \in OneKey : getJSON(c, k) /\ UNCHANGED clientVars
    \/ \E c \in Calls : getJSON_lookup(c) /\ UNCHANGED clientVars
    \/ \E c \in Calls : getJSON_executeRequest(c) /\ UNCHANGED clientVars

SkyDBSpec == Init /\ [][SkyDBNext]_vars

\* ------------------------------------------------ deletion through MySky
\* The steps of a setEntryData after it was queued: its callback uploads
\* nothing.
SetEntryDataStep(c) ==
    \/ withCachedEntryLock_acquire(c)
    \/ withCachedEntryLock_seed(c)
    \/ callback_incrementRevision(c)
    \/ signRegistryEntry(c)
    \/ postSignedEntry(c)

\* MySky.deleteJSON: setEntryData with the deletion data.
deleteJSON(c, k) ==
    /\ MySkyWrite(c, "setEntryData", k)
    /\ io' = [io EXCEPT ![c] = [NoIO EXCEPT !.link = DELETION_ENTRY_DATA]]
    /\ UNCHANGED entryData

\* A step of a MySky write with the data of its entry:
\* const entry = { dataKey, data, revision: newRevision }.
MySkyStep_entry(c) ==
    LET k == KeyOf(c) IN
    /\ SetEntryDataStep(c)
    /\ entryData' = IF history'[k] # history[k]
                    THEN [entryData EXCEPT ![k] = io[c].link]
                    ELSE entryData
    /\ IF call'[c].result = "ok"
       THEN Return(c, [NoReturn EXCEPT !.value = Undefined])
       ELSE UNCHANGED io

\* Deletions through MySky next to the writes and reads of the key-signing
\* SkyDB, on one key.
DeleteNext ==
    \/ \E c \in Calls, k \in OneKey : deleteJSON(c, k) /\ UNCHANGED clientVars
    \/ \E c \in Calls : MySkyStep_entry(c) /\ UNCHANGED clientVars
    \/ \E c \in Calls, k \in OneKey, j \in Docs : setJSON_json(c, k, NoArg, j) /\ UNCHANGED clientVars
    \/ \E c \in Calls : setJSON_upload(c) /\ UNCHANGED <<docVars, clientVars>>
    \/ \E c \in Calls : setJSON_getEntry(c) /\ UNCHANGED <<docVars, clientVars>>
    \/ \E c \in Calls : setJSON_setEntryData(c) /\ UNCHANGED clientVars
    \/ \E c \in Calls, k \in OneKey : getJSON(c, k) /\ UNCHANGED clientVars
    \/ \E c \in Calls : getJSON_lookup(c) /\ UNCHANGED clientVars
    \/ \E c \in Calls : getJSON_executeRequest(c) /\ UNCHANGED clientVars

DeleteSpec == Init /\ [][DeleteNext]_vars

\* ------------------------------------------------ MySky.setEntryData
\* validateEntryData(data, allowDeletionEntryData): the length check.
validateEntryData(len) == len <= MAX_ENTRY_LENGTH

\* A setEntryData that does not validate its data.
setEntryDataUnvalidated(c, k, len) ==
    /\ Free(c)
    /\ call' = [call EXCEPT ![c] =
                   [IdleCall EXCEPT !.pc = "userID", !.op = "setEntryData",
                                    !.key = k]]
    /\ io' = [io EXCEPT ![c] = [NoIO EXCEPT !.len = len]]
    /\ UNCHANGED <<registry, cache, holder, queue, history, entryData>>

\* MySky.setEntryData(path, data) up to `await this.userID()`:
\* validateEntryData comes before it.
setEntryData(c, k, len) ==
    /\ Free(c)
    /\ LET rec == [IdleCall EXCEPT !.op = "setEntryData", !.key = k] IN
       IF validateEntryData(len)
       THEN call' = [call EXCEPT ![c] = [rec EXCEPT !.pc = "userID"]]
       ELSE Finish(c, rec, "ValidationError")
    /\ io' = [io EXCEPT ![c] = [NoIO EXCEPT !.len = len]]
    /\ UNCHANGED <<registry, cache, holder, queue, history, entryData>>

\* const publicKey = await this.userID(); then the call of
\* withCachedEntryLock, which queues the call on the key's mutex.
userID(c) ==
    /\ call[c].pc = "userID"
    /\ \/ /\ call' = [call EXCEPT ![c].pc = "waiting"]
          /\ queue' = [queue EXCEPT ![call[c].key] = Append(@, c)]
       \/ /\ Finish(c, call[c], "TransportError")
          /\ UNCHANGED queue
    /\ UNCHANGED <<registry, cache, holder, history, entryData, io>>

\* setEntryData calls with data of several lengths, on one key.
EntryDataNext ==
    \/ \E c \in Calls, k \in OneKey, len \in DataLengths : setEntryData(c, k, len) /\ UNCHANGED clientVars
    \/ \E c \in Calls : userID(c) /\ UNCHANGED clientVars
    \/ \E c \in Calls : SetEntryDataStep(c) /\ UNCHANGED <<docVars, clientVars>>
    \/ \E k \in OneKey : OtherProcessPublish(k) /\ UNCHANGED <<docVars, clientVars>>

EntryDataSpec == Init /\ [][EntryDataNext]_vars

\* ------------------------------------------------------- several keys
\* MySky writes on every key.
KeysNext ==
    \/ \E c \in Calls, o \in MySkyWrites, k \in Keys : MySkyWrite(c, o, k) /\ UNCHANGED <<docVars, clientVars>>
    \/ \E c \in Calls : MySkyStep(c) /\ UNCHANGED <<docVars, clientVars>>

KeysSpec == Init /\ [][KeysNext]_vars

\* --------------------------------------------------------- entry links
\* The entry link of each (publicKey, dataKey) pair: a v2 skylink.
EntryLinks == {"E1", "E2"}
EntryLinkOf == [k \in Keys |-> IF k = "k1" THEN "E1" ELSE "E2"]

\* An entry link that is the data link of the entry once there is one.
getEntryLinkResolved(k) ==
    IF entryData[k] \in Skylinks THEN entryData[k] ELSE EntryLinkOf[k]

\* getEntryLink(publicKey, dataKey, opts): computed from its arguments.
getEntryLink(k) == EntryLinkOf[k]

\* MySky.setDataLink(path, dataLink): setEntryData with the decoded link.
setDataLink(c, k, l) ==
    /\ MySkyWrite(c, "setEntryData", k)
    /\ io' = [io EXCEPT ![c] = [NoIO EXCEPT !.link = l]]
    /\ UNCHANGED entryData

\* MySky.getEntryLink(path) up to `await this.userID()`.
MySky_getEntryLink(c, k) ==
    /\ Free(c)
    /\ call' = [call EXCEPT ![c] =
                   [IdleCall EXCEPT !.pc = "linkUserID", !.op = "getEntryLink",
                                    !.key = k]]
    /\ io' = [io EXCEPT ![c] = NoIO]
    /\ UNCHANGED <<registry, cache, holder, queue, history, entryData>>

\* The user ID arrives, or the connector fails;
\* return getEntryLink(publicKey, dataKey, opts).
MySky_getEntryLink_return(c) ==
    /\ call[c].pc = "linkUserID"
    /\ \/ Finish(c, call[c], "TransportError") /\ UNCHANGED io
       \/ /\ Finish(c, call[c], "ok")
          /\ Return(c, [NoReturn EXCEPT !.value = getEntryLink(call[c].key)])
    /\ UNCHANGED <<registry, cache, holder, queue, history, entryData>>

\* The portal's answer to a download of the entry link of k: the content
\* the data of the entry addresses, 404 without entry or with the deletion
\* data.
resolveEntryLink(k) ==
    IF entryData[k] \in Skylinks
    THEN [status |-> 200, data |-> getFileContent(entryData[k])]
    ELSE [status |-> 404, data |-> Null]

\* client.getFileContent(entryLink): the call with the entry link of k.
getFileContentOfEntryLink(c, k) ==
    /\ Free(c)
    /\ call' = [call EXCEPT ![c] =
                   [IdleCall EXCEPT !.pc = "resolve", !.op = "getFileContent",
                                    !.key = k]]
    /\ io' = [io EXCEPT ![c] = [NoIO EXCEPT !.link = getEntryLink(k)]]
    /\ UNCHANGED <<registry, cache, holder, queue, history, entryData>>

\* A getFileContentRequest that catches the rejection of a 404 and returns
\* an empty document.
getFileContentRequestCatching(c) ==
    LET resp == resolveEntryLink(call[c].key) IN
    /\ call[c].pc = "resolve"
    /\ \/ Finish(c, call[c], "TransportError") /\ UNCHANGED io
       \/ /\ Finish(c, call[c], "ok")
          /\ Return(c, [NoReturn EXCEPT !.value = resp.data])
    /\ UNCHANGED <<registry, cache, holder, queue, history, entryData>>

\* getFileContentRequest: one GET of the URL of the link; a response
\* outside 2xx rejects the request, and nothing catches it;
\* return { data: response.data, ... }.
getFileContentRequest(c) ==
    LET resp == resolveEntryLink(call[c].key) IN
    /\ call[c].pc = "resolve"
    /\ \/ Finish(c, call[c], "TransportError") /\ UNCHANGED io
       \/ /\ resp.status = 404
          /\ Finish(c, call[c], "NotFoundError")
          /\ UNCHANGED io
       \/ /\ resp.status = 200
          /\ Finish(c, call[c], "ok")
          /\ Return(c, [NoReturn EXCEPT !.value = resp.data])
    /\ UNCHANGED <<registry, cache, holder, queue, history, entryData>>

\* A writer of another process publishes the next revision with a data
\* link as its data.
OtherProcessSetDataLink(k, l) ==
    /\ OtherProcessPublish(k)
    /\ entryData' = [entryData EXCEPT ![k] = l]
    /\ UNCHANGED io

\* Entries set by another process and deleted through MySky next to calls
\* that compute the entry link, on one key.
EntryLinkNext ==
    \/ \E k \in OneKey, l \in Skylinks : OtherProcessSetDataLink(k, l) /\ UNCHANGED clientVars
    \/ \E c \in Calls, k \in OneKey : deleteJSON(c, k) /\ UNCHANGED clientVars
    \/ \E c \in Calls : MySkyStep_entry(c) /\ UNCHANGED clientVars
    \/ \E c \in Calls, k \in OneKey : MySky_getEntryLink(c, k) /\ UNCHANGED clientVars
    \/ \E c \in Calls : MySky_getEntryLink_return(c) /\ UNCHANGED clientVars

EntryLinkSpec == Init /\ [][EntryLinkNext]_vars

\* Entries set and deleted, through MySky and by another process, next to
\* downloads of the entry link, on one key.
ResolveNext ==
    \/ \E k \in OneKey, l \in Skylinks : OtherProcessSetDataLink(k, l) /\ UNCHANGED clientVars
    \/ \E c \in Calls, k \in OneKey : deleteJSON(c, k) /\ UNCHANGED clientVars
    \/ \E c \in Calls, k \in OneKey, l \in Skylinks : setDataLink(c, k, l) /\ UNCHANGED clientVars
    \/ \E c \in Calls : MySkyStep_entry(c) /\ UNCHANGED clientVars
    \/ \E c \in Calls, k \in OneKey : getFileContentOfEntryLink(c, k) /\ UNCHANGED clientVars
    \/ \E c \in Calls : getFileContentRequest(c) /\ UNCHANGED clientVars

ResolveSpec == Init /\ [][ResolveNext]_vars

\* ------------------------------------------- signing before publishing
\* MySky.setJSON(path, json): the call with its document.
MySky_setJSON(c, k, j) ==
    /\ MySkyWrite(c, "setJSON", k)
    /\ io' = [io EXCEPT ![c] = [NoIO EXCEPT !.json = j]]
    /\ UNCHANGED entryData

\* A step of a MySky write with the data of its entry: the data link of
\* the upload for setJSON, the data passed for setEntryData.
MySkyStep_data(c) ==
    LET k == KeyOf(c) IN
    /\ MySkyStep(c)
    /\ entryData' = IF history'[k] # history[k]
                    THEN [entryData EXCEPT ![k] = io[c].link]
                    ELSE entryData
    /\ io' = IF call[c].pc = "upload" /\ call'[c].pc = "sign"
             THEN [io EXCEPT ![c].link =
                      trimUriPrefix(uploadFileRequest(io[c].json))]
             ELSE IF call'[c].result = "ok"
             THEN [io EXCEPT ![c].ret = [NoReturn EXCEPT !.value = "object"]]
             ELSE io

\* setJSON, setDataLink and deleteJSON of MySky, on one key.
SignNext ==
    \/ \E c \in Calls, k \in OneKey, j \in Docs : MySky_setJSON(c, k, j) /\ UNCHANGED clientVars
    \/ \E c \in Calls, k \in OneKey, l \in Skylinks : setDataLink(c, k, l) /\ UNCHANGED clientVars
    \/ \E c \in Calls, k \in OneKey : deleteJSON(c, k) /\ UNCHANGED clientVars
    \/ \E c \in Calls : MySkyStep_data(c) /\ UNCHANGED clientVars

SignSpec == Init /\ [][SignNext]_vars

\* ------------------------- verification in the key-signing setJSON
\* What the lookup of setJSON can receive: the stored entry with its
\* signature or, for a key that has an entry, an entry whose signature does
\* not verify.
LookupResponses(k) ==
    IF registry[k] = NoEntry
    THEN {[data |-> entryData[k], sigOk |-> TRUE]}
    ELSE Responses(k)

\* The document the calls of the verification write.
OneDoc == {"j1"}

\* A verification whose failure is ignored: the revision is derived from
\* the entry as it came.
setJSON_verifyIgnored(c) ==
    /\ call' = [call EXCEPT ![c].pc = "dbSetEntry",
                            ![c].rev = registry[KeyOf(c)] + 1]
    /\ UNCHANGED <<registry, cache, holder, queue, history>>

\* if (!pki.ed25519.verify({...})) throw new Error("could not verify
\* signature").
setJSON_verifyFailed(c) ==
    /\ Finish(c, call[c], "TrustError")
    /\ UNCHANGED <<registry, cache, holder, queue, history>>

\* The lookup of the current entry with the response it received.
setJSON_getEntryResponse(c) ==
    /\ call[c].pc = "dbLookup"
    /\ \E resp \in LookupResponses(KeyOf(c)) :
          /\ io' = [io EXCEPT ![c].bad = ~resp.sigOk]
          /\ IF resp.sigOk
             THEN setJSON_getEntry(c) /\ call'[c].result # "TrustError"
             ELSE setJSON_verifyFailed(c)
    /\ UNCHANGED entryData

\* Key-signing setJSON calls with and without a revision, next to a writer
\* of another process, on one key.
VerifyNext ==
    \/ \E c \in Calls, k \in OneKey, a \in RevArgs, j \in OneDoc : setJSON_json(c, k, a, j) /\ UNCHANGED clientVars
    \/ \E c \in Calls : setJSON_upload(c) /\ UNCHANGED <<docVars, clientVars>>
    \/ \E c \in Calls : setJSON_getEntryResponse(c) /\ UNCHANGED clientVars
    \/ \E c \in Calls : setJSON_setEntryData(c) /\ UNCHANGED clientVars
    \/ \E k \in OneKey, l \in Skylinks : OtherProcessSetDataLink(k, l) /\ UNCHANGED clientVars

VerifySpec == Init /\ [][VerifyNext]_vars

\* ------------------------------------------------- abandoned callers
\* The caller of a write stops waiting for the promise it was given: there
\* is nothing it can call to cancel the write, which goes on as it was.
callerStopsWaiting(c) ==
    /\ call[c].pc \notin {"idle", "done"}
    /\ call[c].waited
    /\ call' = [call EXCEPT ![c].waited = FALSE]
    /\ UNCHANGED <<registry, cache, holder, queue, history>>

\* MySky writes on one key whose callers may stop waiting.
AbandonNext ==
    \/ \E c \in Calls, o \in MySkyWrites, k \in OneKey : MySkyWrite(c, o, k) /\ UNCHANGED <<docVars, clientVars>>
    \/ \E c \in Calls : MySkyStep(c) /\ UNCHANGED <<docVars, clientVars>>
    \/ \E c \in Calls : callerStopsWaiting(c) /\ UNCHANGED <<docVars, clientVars>>
    \/ \E k \in OneKey : OtherProcessPublish(k) /\ UNCHANGED <<docVars, clientVars>>

AbandonSpec == Init /\ [][AbandonNext]_vars

\* ------------------------------------------------------ the portal URL
\* A call of portalUrl / initPortalUrl takes the record of a settled call,
\* or the first unused one.
FreePortalCall(c) ==
    \/ portalCall[c].pc = "done"
    \/ portalCall[c].pc = "idle"
          /\ \A d \in Calls : d < c => portalCall[d].pc # "idle"

\* initPortalUrl of client cl up to its await: `if
\* (!SkynetClient.resolvedPortalUrl)` the promise is created and its
\* executor issues the request to this.initialPortalUrl.
initPortalUrl_request(cl) ==
    IF resolvedPortalUrl.state = "undefined"
    THEN /\ resolvedPortalUrl' =
                [state |-> "pending", inflight |-> TRUE,
                 from |-> initialPortalUrl[cl], value |-> ""]
         /\ requests' = [requests EXCEPT ![cl] = @ + 1]
    ELSE UNCHANGED <<resolvedPortalUrl, requests>>

\* client.initPortalUrl() is called: await SkynetClient.resolvedPortalUrl.
initPortalUrl(c, cl) ==
    /\ FreePortalCall(c)
    /\ initPortalUrl_request(cl)
    /\ portalCall' = [portalCall EXCEPT ![c] =
                         [IdlePortalCall EXCEPT !.pc = "await",
                                                !.op = "initPortalUrl",
                                                !.client = cl]]

\* client.portalUrl() is called: the given URL is returned at once;
\* otherwise this.initPortalUrl() is called without await, and the call
\* awaits SkynetClient.resolvedPortalUrl.
portalUrl(c, cl) ==
    /\ FreePortalCall(c)
    /\ LET rec == [IdlePortalCall EXCEPT !.op = "portalUrl", !.client = cl] IN
       IF givenPortalUrl[cl] # ""
       THEN /\ portalCall' = [portalCall EXCEPT ![c] =
                                 [rec EXCEPT !.pc = "done", !.result = "ok",
                                             !.ret = givenPortalUrl[cl]]]
            /\ UNCHANGED <<resolvedPortalUrl, requests>>
       ELSE /\ initPortalUrl_request(cl)
            /\ portalCall' = [portalCall EXCEPT ![c] = [rec EXCEPT !.pc = "await"]]

\* The request is answered.  With the `skynet-portal-api` header the
\* promise resolves; without headers or without that header it is rejected;
\* when the request fails, the rejection of executeRequest is handled by
\* nobody and the promise stays pending for good.
initPortalUrl_response ==
    /\ resolvedPortalUrl.state = "pending"
    /\ resolvedPortalUrl.inflight
    /\ \/ resolvedPortalUrl' =
             [resolvedPortalUrl EXCEPT !.state = "resolved", !.inflight = FALSE,
                                       !.value = PortalApi[resolvedPortalUrl.from]]
       \/ resolvedPortalUrl' =
             [resolvedPortalUrl EXCEPT !.state = "rejected", !.inflight = FALSE]
       \/ resolvedPortalUrl' = [resolvedPortalUrl EXCEPT !.inflight = FALSE]
    /\ UNCHANGED <<requests, portalCall>>

\* The await of SkynetClient.resolvedPortalUrl ends.
portalUrl_await(c) ==
    /\ portalCall[c].pc = "await"
    /\ resolvedPortalUrl.state \in {"resolved", "rejected"}
    /\ portalCall' = [portalCall EXCEPT ![c] =
          [@ EXCEPT !.pc = "done",
                    !.result = IF resolvedPortalUrl.state = "resolved"
                               THEN "ok" ELSE "PortalError",
                    !.ret = IF resolvedPortalUrl.state = "resolved"
                               /\ portalCall[c].op = "portalUrl"
                            THEN resolvedPortalUrl.value ELSE ""]]
    /\ UNCHANGED <<resolvedPortalUrl, requests>>

\* Calls of portalUrl and initPortalUrl on clients with and without a given
\* portal URL.
PortalNext ==
    \/ \E c \in Calls, cl \in Clients : initPortalUrl(c, cl) /\ UNCHANGED <<dbVars, mySkyVars, linkVars, sessionVars>>
    \/ \E c \in Calls, cl \in Clients : portalUrl(c, cl) /\ UNCHANGED <<dbVars, mySkyVars, linkVars, sessionVars>>
    \/ initPortalUrl_response /\ UNCHANGED <<dbVars, mySkyVars, linkVars, sessionVars>>
    \/ \E c \in Calls : portalUrl_await(c) /\ UNCHANGED <<dbVars, mySkyVars, linkVars, sessionVars>>

PortalSpec == Init /\ [][PortalNext]_vars

\* The portal answers every request or the request fails, and the event
\* loop runs every continuation whose promise has settled.
PortalLiveSpec ==
    /\ Init /\ [][PortalNext]_vars
    /\ WF_vars(initPortalUrl_response /\ UNCHANGED <<dbVars, mySkyVars, linkVars, sessionVars>>)
    /\ \A c \in Calls :
          WF_vars(portalUrl_await(c) /\ UNCHANGED <<dbVars, mySkyVars, linkVars, sessionVars>>)

\* ------------------------------------------------- the MySky singleton
FreeMySkyCall(c) ==
    \/ mySkyCall[c].pc = "done"
    \/ mySkyCall[c].pc = "idle"
          /\ \A d \in Calls : d < c => mySkyCall[d].pc # "idle"

\* MySky.New / loadMySky is called: `if (MySky.instance) return
\* MySky.instance`; otherwise Connector.init is called and awaited.
New(c) ==
    /\ FreeMySkyCall(c)
    /\ IF instance # 0
       THEN /\ mySkyCall' = [mySkyCall EXCEPT ![c] =
                                [IdleMySkyCall EXCEPT !.pc = "done",
                                                      !.result = "ok",
                                                      !.instance = instance]]
            /\ UNCHANGED <<instance, connectors>>
       ELSE /\ connectors < MaxConnectors
            /\ connectors' = connectors + 1
            /\ mySkyCall' = [mySkyCall EXCEPT ![c] =
                                [IdleMySkyCall EXCEPT !.pc = "init",
                                                      !.conn = connectors + 1]]
            /\ UNCHANGED instance

\* await Connector.init(client, domain, customOptions) ends.
New_Connector_init(c) ==
    /\ mySkyCall[c].pc = "init"
    /\ \/ mySkyCall' = [mySkyCall EXCEPT ![c].pc = "extractDomain"]
       \/ mySkyCall' = [mySkyCall EXCEPT ![c].pc = "done",
                                         ![c].result = "ConnectorError"]
    /\ UNCHANGED <<instance, connectors>>

\* await client.extractDomain(window.location.hostname) ends;
\* MySky.instance = new MySky(connector, permissions, hostDomain);
\* return MySky.instance.
New_extractDomain(c) ==
    /\ mySkyCall[c].pc = "extractDomain"
    /\ \/ /\ instance' = mySkyCall[c].conn
          /\ mySkyCall' = [mySkyCall EXCEPT ![c].pc = "done",
                                            ![c].result = "ok",
                                            ![c].instance = mySkyCall[c].conn]
       \/ /\ mySkyCall' = [mySkyCall EXCEPT ![c].pc = "done",
                                            ![c].result = "TransportError"]
          /\ UNCHANGED instance
    /\ UNCHANGED connectors

\* Calls of MySky.New that may overlap.
MySkyNext ==
    \/ \E c \in Calls : New(c) /\ UNCHANGED <<dbVars, portalVars, linkVars, sessionVars>>
    \/ \E c \in Calls : New_Connector_init(c) /\ UNCHANGED <<dbVars, portalVars, linkVars, sessionVars>>
    \/ \E c \in Calls : New_extractDomain(c) /\ UNCHANGED <<dbVars, portalVars, linkVars, sessionVars>>

MySkySpec == Init /\ [][MySkyNext]_vars

\* ------------------------------------------------------- the link codec
\* Strings are sequences of characters.  The alphabet of the canonical
\* encoding of a link: 64 characters, 6 bits each, no padding character.
Alphabet ==
    <<"A", "B", "C", "D", "E", "F", "G", "H", "I", "J", "K", "L", "M",
      "N", "O", "P", "Q", "R", "S", "T", "U", "V", "W", "X", "Y", "Z",
      "a", "b", "c", "d", "e", "f", "g", "h", "i", "j", "k", "l", "m",
      "n", "o", "p", "q", "r", "s", "t", "u", "v", "w", "x", "y", "z",
      "0", "1", "2", "3", "4", "5", "6", "7", "8", "9", "-", "_">>
AlphabetChars == {Alphabet[i] : i \in 1..Len(Alphabet)}
BitsPerChar == 6

RECURSIVE Pow2(_)
Pow2(n) == IF n = 0 THEN 1 ELSE 2 * Pow2(n - 1)

\* The values of a byte of the model, BitsPerByte bits wide.
ByteBase == Pow2(BitsPerByte)
ByteValues == 0..(ByteBase - 1)

\* The number a sequence of digits denotes, most significant digit first.
RECURSIVE ToNumber(_, _)
ToNumber(digits, base) ==
    IF digits = <<>> THEN 0
    ELSE ToNumber(SubSeq(digits, 1, Len(digits) - 1), base) * base
            + digits[Len(digits)]

\* The len digits of n, most significant digit first.
RECURSIVE FromNumber(_, _, _)
FromNumber(n, base, len) ==
    IF len = 0 THEN <<>>
    ELSE Append(FromNumber(n \div base, base, len - 1), n % base)

\* Number of characters that encode n bytes, and the zero bits that fill
\* the last character.
EncodedLen(n) == (n * BitsPerByte + BitsPerChar - 1) \div BitsPerChar
PadBits(n) == EncodedLen(n) * BitsPerChar - n * BitsPerByte
\* Length of a link in characters.
LinkLen == EncodedLen(RawBytes)

CharOf(d) == Alphabet[d + 1]
DigitOf(ch) == (CHOOSE i \in 1..Len(Alphabet) : Alphabet[i] = ch) - 1

\* format(bytes): the canonical string of a raw payload.
format(bytes) ==
    LET n == ToNumber(bytes, ByteBase) * Pow2(PadBits(Len(bytes)))
        digits == FromNumber(n, Len(Alphabet), EncodedLen(Len(bytes)))
    IN [i \in 1..Len(digits) |-> CharOf(digits[i])]

\* A decode that takes the fill bits of the last character for payload.
decodeWithFillBits(text) ==
    IF Len(text) # LinkLen \/ \E i \in 1..Len(text) : text[i] \notin AlphabetChars
    THEN [err |-> "FormatError", bytes |-> <<>>]
    ELSE LET n == ToNumber([i \in 1..Len(text) |-> DigitOf(text[i])],
                           Len(Alphabet))
         IN [err |-> "none",
             bytes |-> FromNumber(n % Pow2(RawBytes * BitsPerByte),
                                  ByteBase, RawBytes)]

\* decode(linkString): the raw payload of a link; a string of another
\* length or with other characters is no link.
decode(text) ==
    IF Len(text) # LinkLen \/ \E i \in 1..Len(text) : text[i] \notin AlphabetChars
    THEN [err |-> "FormatError", bytes |-> <<>>]
    ELSE LET n == ToNumber([i \in 1..Len(text) |-> DigitOf(text[i])],
                           Len(Alphabet))
         IN [err |-> "none",
             bytes |-> FromNumber(n \div Pow2(PadBits(RawBytes)),
                                  ByteBase, RawBytes)]

\* The URI prefixes of a link and the portal the tests use; the URL of the
\* portal is taken as one character.
uriSkynetPrefix == <<"s", "i", "a", ":">>
uriSkynetPrefixSlashes == <<"s", "i", "a", ":", "/", "/">>
portalUrlText == <<"https://siasky.net">>

StartsWith(text, p) ==
    Len(text) >= Len(p) /\ SubSeq(text, 1, Len(p)) = p
Drop(text, n) == SubSeq(text, n + 1, Len(text))
\* The text up to its first character of `stops`.
UpTo(text, stops) ==
    IF \E i \in 1..Len(text) : text[i] \in stops
    THEN SubSeq(text, 1,
                (CHOOSE i \in 1..Len(text) :
                    /\ text[i] \in stops
                    /\ \A j \in 1..(i - 1) : text[j] \notin stops) - 1)
    ELSE text
trimSuffixSlash(text) ==
    IF text # <<>> /\ text[Len(text)] = "/"
    THEN SubSeq(text, 1, Len(text) - 1) ELSE text
trimUriPrefixText(text) ==
    IF StartsWith(text, uriSkynetPrefixSlashes)
    THEN Drop(text, Len(uriSkynetPrefixSlashes))
    ELSE IF StartsWith(text, uriSkynetPrefix)
    THEN Drop(text, Len(uriSkynetPrefix))
    ELSE text

\* parse(input, {onlyPath, includePath}): the link in a string, with or
\* without URI prefix, inside a portal URL, followed by a path, a query or
\* a fragment; Null when no link is recognized.  opt is "link", "onlyPath"
\* or "includePath".
parse(input, opt) ==
    LET bare == trimUriPrefixText(input)
        inUrl == IF StartsWith(bare, portalUrlText \o <<"/">>)
                 THEN Drop(bare, Len(portalUrlText) + 1) ELSE bare
        linkAndPath == trimSuffixSlash(UpTo(inUrl, {"?", "#"}))
        link == SubSeq(linkAndPath, 1, LinkLen)
        path == Drop(linkAndPath, LinkLen)
    IN IF /\ Len(linkAndPath) >= LinkLen
          /\ \A i \in 1..LinkLen : link[i] \in AlphabetChars
          /\ (path = <<>> \/ path[1] = "/")
       THEN IF opt = "includePath" THEN linkAndPath
            ELSE IF opt = "onlyPath" THEN path
            ELSE link
       ELSE Null

\* The raw payloads, of the fixed size and one byte shorter.
Payloads ==
    [1..RawBytes -> ByteValues] \cup [1..(RawBytes - 1) -> ByteValues]

\* A payload to format, decode, format again and parse.
CodecInit ==
    /\ InitClient
    /\ download = NoDownload
    /\ InitSession
    /\ \E b \in Payloads : codec = [NoCodec EXCEPT !.stage = "payload",
                                                   !.payload = b]

codec_format ==
    /\ codec.stage = "payload"
    /\ codec' = [codec EXCEPT !.stage = "formatted",
                              !.text = format(codec.payload)]

codec_decode ==
    /\ codec.stage = "formatted"
    /\ LET d == decode(codec.text) IN
       codec' = IF d.err = "none"
                THEN [codec EXCEPT !.stage = "decoded", !.bytes = d.bytes]
                ELSE [codec EXCEPT !.stage = "raised", !.err = d.err]

codec_formatAgain ==
    /\ codec.stage = "decoded"
    /\ codec' = [codec EXCEPT !.stage = "formattedAgain",
                              !.again = format(codec.bytes)]

\* parse(format(b) + "/x/y").
codec_parse ==
    /\ codec.stage = "formattedAgain"
    /\ LET input == codec.text \o <<"/", "x", "/", "y">> IN
       codec' = IF parse(input, "link") = Null
                THEN [codec EXCEPT !.stage = "raised", !.err = "null"]
                ELSE [codec EXCEPT !.stage = "parsed",
                                   !.link = parse(input, "link"),
                                   !.path = parse(input, "onlyPath")]

CodecNext ==
    \/ codec_format /\ UNCHANGED <<dbVars, portalVars, mySkyVars, download, sessionVars>>
    \/ codec_decode /\ UNCHANGED <<dbVars, portalVars, mySkyVars, download, sessionVars>>
    \/ codec_formatAgain /\ UNCHANGED <<dbVars, portalVars, mySkyVars, download, sessionVars>>
    \/ codec_parse /\ UNCHANGED <<dbVars, portalVars, mySkyVars, download, sessionVars>>

CodecSpec == CodecInit /\ [][CodecNext]_vars

\* -------------------------------------------------- the download URLs
\* Values of the `download` option: not given, true or false.
DownloadOptions == {"unset", "true", "false"}
defaultDownloadOptions == [download |-> "false"]
\* { ...defaults, ...this.customOptions, ...customOptions }: the value of
\* `download` after the spreads.
mergeDownload(clientOpt, opt) ==
    IF opt # "unset" THEN opt
    ELSE IF clientOpt # "unset" THEN clientOpt
    ELSE defaultDownloadOptions.download

\* The links of the inputs, the paths, and the strings that are no link:
\* one character short, and with a character outside the alphabet.
SampleLinks == {format(<<1, 2>> \o [i \in 1..(RawBytes - 2) |-> 3]),
                format(<<ByteBase - 1, 0>> \o [i \in 1..(RawBytes - 2) |-> 0])}
SamplePaths == {<<>>, <<"/", "f", "o", "o", "/", "b", "a", "r">>}
NotLinks ==
    {SubSeq(l, 1, LinkLen - 1) : l \in SampleLinks}
        \cup {[l EXCEPT ![1] = "!"] : l \in SampleLinks}
        \cup {l \o <<"x">> : l \in SampleLinks}

\* The input forms: bare, sia: and sia:// prefix, in a portal URL, with a
\* trailing slash, a path, a query, a fragment; and the same around a
\* string that is no link.
Inputs ==
    {[prefix |-> p, link |-> l, path |-> pa, trailing |-> t,
      query |-> q, fragment |-> f, valid |-> l \in SampleLinks] :
        p \in {<<>>, uriSkynetPrefix, uriSkynetPrefixSlashes,
               portalUrlText \o <<"/">>},
        l \in SampleLinks \cup NotLinks,
        pa \in SamplePaths,
        t \in {<<>>, <<"/">>},
        q \in {<<>>, <<"?", "f", "=", "b">>},
        f \in {<<>>, <<"#", "f">>}}
WellFormed(in) == in.trailing = <<>> \/ in.path = <<>>
TextOf(in) ==
    in.prefix \o in.link \o in.path \o in.trailing \o in.query \o in.fragment

attachmentQuery == <<"?attachment=true">>
makeUrl(portal, endpoint, skylink, path) ==
    portal \o endpoint \o skylink \o path
addUrlQuery(url, query) ==
    IF "attachment" \in query THEN url \o attachmentQuery ELSE url
endpointDownload == <<"/">>

\* getSkylinkUrlForPortal that takes the link without its path.
getSkylinkUrlForPortalWithoutPath(portal, skylinkUrl, dl) ==
    LET query == IF dl = "true" THEN {"attachment"} ELSE {}
        skylink == parse(skylinkUrl, "link")
    IN IF skylink = Null
       THEN [err |-> "Error", url |-> <<>>]
       ELSE [err |-> "none",
             url |-> addUrlQuery(makeUrl(portal, endpointDownload, skylink, <<>>),
                                 query)]

\* getSkylinkUrlForPortal(portalUrl, skylinkUrl, opts), without subdomain
\* and without the path option.
getSkylinkUrlForPortal(portal, skylinkUrl, dl) ==
    LET query == IF dl = "true" THEN {"attachment"} ELSE {}
        skylink == parse(skylinkUrl, "includePath")
    IN IF skylink = Null
       THEN [err |-> "Error", url |-> <<>>]
       ELSE [err |-> "none",
             url |-> addUrlQuery(makeUrl(portal, endpointDownload, skylink, <<>>),
                                 query)]

\* A client constructed with the portal URL, its options, and the input
\* and options of one call.
DownloadInit ==
    /\ InitClient
    /\ codec = NoCodec
    /\ InitSession
    /\ \E in \in Inputs, o \in DownloadOptions, co \in DownloadOptions :
          /\ WellFormed(in)
          /\ download = [NoDownload EXCEPT !.input = in, !.text = TextOf(in),
                                           !.opt = o, !.clientOpt = co]

\* this.getSkylinkUrl(skylinkUrl, opts) with `download` as given.
getSkylinkUrlWith(op, dl) ==
    LET r == getSkylinkUrlForPortal(portalUrlText, download.text, dl) IN
    download' = [download EXCEPT !.op = op, !.err = r.err, !.url = r.url]

getSkylinkUrl ==
    /\ download.op = "none"
    /\ download.text # <<>>
    /\ getSkylinkUrlWith("getSkylinkUrl",
                         mergeDownload(download.clientOpt, download.opt))

\* opts = { ..., ...customOptions, download: true }.
downloadFile ==
    /\ download.op = "none"
    /\ download.text # <<>>
    /\ getSkylinkUrlWith("downloadFile", "true")

\* opts = { ...defaultDownloadOptions, ...this.customOptions, ...customOptions }.
openFile ==
    /\ download.op = "none"
    /\ download.text # <<>>
    /\ getSkylinkUrlWith("openFile",
                         mergeDownload(download.clientOpt, download.opt))

DownloadNext ==
    \/ getSkylinkUrl /\ UNCHANGED <<dbVars, portalVars, mySkyVars, codec, sessionVars>>
    \/ downloadFile /\ UNCHANGED <<dbVars, portalVars, mySkyVars, codec, sessionVars>>
    \/ openFile /\ UNCHANGED <<dbVars, portalVars, mySkyVars, codec, sessionVars>>

DownloadSpec == DownloadInit /\ [][DownloadNext]_vars

\* ----------------------------------------- the caller's query object
hnsDomain == <<"foo">>
endpointDownloadHns == <<"/hns/">>

\* const query = opts.query ?? {}; if (opts.download) query.attachment =
\* true; if (opts.noResponseMetadata) query["no-response-metadata"] = true:
\* opts.query is the object the caller passed, and the parameters are set
\* on it.
setQueryParameters(q, dl, nrm) ==
    q \cup (IF dl THEN {"attachment"} ELSE {})
      \cup (IF nrm THEN {"no-response-metadata"} ELSE {})

\* A call with customOptions.query = the caller's object: the parameters
\* are set on the object, and the URL carries the query.
callWithQuery(op, base, dl, nrm) ==
    LET q == setQueryParameters(callerQuery.obj, dl, nrm) IN
    /\ Len(callerQuery.calls) < MaxCalls
    /\ callerQuery' = [obj |-> q,
                       calls |-> Append(callerQuery.calls,
                                        [op |-> op, dl |-> dl, nrm |-> nrm,
                                         url |-> addUrlQuery(base, q)])]

skylinkUrlBase ==
    makeUrl(portalUrlText, endpointDownload,
            CHOOSE l \in SampleLinks : TRUE, <<>>)
hnsUrlBase == makeUrl(portalUrlText, endpointDownloadHns, hnsDomain, <<>>)

getSkylinkUrl_query(dl, nrm) ==
    callWithQuery("getSkylinkUrl", skylinkUrlBase, dl, nrm)
getHnsUrl_query(dl, nrm) ==
    callWithQuery("getHnsUrl", hnsUrlBase, dl, nrm)
\* downloadFile and downloadFileHns: download: true.
downloadFile_query(nrm) ==
    callWithQuery("downloadFile", skylinkUrlBase, TRUE, nrm)
downloadFileHns_query(nrm) ==
    callWithQuery("downloadFileHns", hnsUrlBase, TRUE, nrm)

\* The caller's object: empty, or with a parameter of its own.
QueryInit ==
    /\ InitClient
    /\ codec = NoCodec
    /\ download = NoDownload
    /\ login = NoLogin
    /\ \E q \in {{}, {"name"}} : callerQuery = [NoQuery EXCEPT !.obj = q]

QueryNext ==
    \/ \E dl, nrm \in BOOLEAN : getSkylinkUrl_query(dl, nrm) /\ UNCHANGED <<dbVars, portalVars, mySkyVars, linkVars, login>>
    \/ \E dl, nrm \in BOOLEAN : getHnsUrl_query(dl, nrm) /\ UNCHANGED <<dbVars, portalVars, mySkyVars, linkVars, login>>
    \/ \E nrm \in BOOLEAN : downloadFile_query(nrm) /\ UNCHANGED <<dbVars, portalVars, mySkyVars, linkVars, login>>
    \/ \E nrm \in BOOLEAN : downloadFileHns_query(nrm) /\ UNCHANGED <<dbVars, portalVars, mySkyVars, linkVars, login>>

QuerySpec == QueryInit /\ [][QueryNext]_vars

\* ------------------------------------------------------ MySky login
\* The variables the login leaves alone.
notLogin == <<dbVars, portalVars, mySkyVars, linkVars, callerQuery>>

\* A MySky instance loaded with or without a skapp domain: the three
\* permissions of the skapp stand as one.
LoginInit ==
    /\ InitClient
    /\ codec = NoCodec
    /\ download = NoDownload
    /\ callerQuery = NoQuery
    /\ \E ps \in {{}, {"p1"}} : login = [NoLogin EXCEPT !.pending = ps]

\* addPermissions(...permissions): this.pendingPermissions.push(...).
addPermissions(l, ps) == [l EXCEPT !.pending = @ \cup ps]

\* loadDacs(dac): loadDac is started, the DAC is pushed to this.dacs, and
\* the promise of loadDac is awaited.
loadDacs(d) ==
    /\ login.dacState[d] = "none"
    /\ login' = [login EXCEPT !.dacs = @ \cup {d}, !.dacState[d] = "init"]

\* loadDac: await dac.init(...), then addPermissions(...dac.getPermissions()).
loadDac(d) ==
    /\ login.dacState[d] = "init"
    /\ \/ login' = [addPermissions(login, DacPermissions[d])
                       EXCEPT !.dacState[d] = "loaded"]
       \/ login' = [login EXCEPT !.dacState[d] = "failed"]

\* mySky.addPermissions(p) called by the skapp.
MySky_addPermissions(p) ==
    /\ p \notin login.pending
    /\ login' = addPermissions(login, {p})

\* A login call that counts every seed as a login.
loggedInWithSeed(seedFound, left) == seedFound

\* const loggedIn = seedFound && failedPermissions.length === 0 (checkLogin);
\* seedFound && this.pendingPermissions.length === 0 (requestLoginAccess).
loggedIn(seedFound, left) == seedFound /\ left = {}

\* A handleLogin without the try/catch around onUserLogin.
handleLoginRethrows(raised) == IF raised = {} THEN "true" ELSE "DacError"

\* handleLogin(true) after its Promise.all: the error of a DAC is caught
\* and printed, the login call returns loggedIn.
handleLoginCaught(raised) == "true"

\* handleLogin(loggedIn) up to its await: with loggedIn, onUserLogin of
\* every DAC of this.dacs is invoked; without, nothing is awaited and the
\* call returns false.
handleLogin(l, in) ==
    IF in
    THEN [l EXCEPT !.pc = "handleLogin", !.handled = TRUE, !.invoked = l.dacs]
    ELSE [l EXCEPT !.pc = "done", !.result = "false"]

\* await Promise.all(...): every onUserLogin has returned or raised.
handleLogin_await ==
    /\ login.pc = "handleLogin"
    /\ \E rs \in SUBSET login.invoked :
          login' = [login EXCEPT !.pc = "done", !.raised = rs,
                                 !.result = handleLoginCaught(rs)]

\* A new login call on the instance.
StartLogin(o) ==
    [login EXCEPT !.op = o, !.n = @ + 1, !.result = "none",
                  !.sent = login.pending, !.seedFound = FALSE,
                  !.exit = "none", !.uiWindow = "none",
                  !.uiConnection = "none", !.listener = "none",
                  !.response = NoResponse, !.awaiting = FALSE,
                  !.got = NoResponse, !.handled = FALSE,
                  !.invoked = {}, !.raised = {}]

\* The responses MySky can give to the permissions sent.
PermissionResponses(sent) ==
    {[seedFound |-> sf, granted |-> g, failed |-> sent \ g, sent |-> TRUE] :
        sf \in BOOLEAN, g \in SUBSET sent}

\* checkLogin up to its await: call("checkLogin", this.pendingPermissions).
checkLogin ==
    /\ login.pc \in {"idle", "done"}
    /\ login.n < MaxCalls
    /\ login' = [StartLogin("checkLogin") EXCEPT !.pc = "checkLogin"]

\* checkLogin after the response: the permissions are saved, loggedIn is
\* computed and handleLogin is called; a failed call raises.
checkLogin_response ==
    /\ login.pc = "checkLogin"
    /\ \/ \E r \in PermissionResponses(login.sent) :
             login' = handleLogin([login EXCEPT !.granted = r.granted,
                                                !.pending = r.failed,
                                                !.seedFound = r.seedFound,
                                                !.got = r],
                                  loggedIn(r.seedFound, r.failed))
       \/ login' = [login EXCEPT !.pc = "done", !.result = "RemoteError"]

\* A finally that leaves the connection as it is.
finallyKeepsConnection(l) ==
    [l EXCEPT !.uiWindow = IF @ = "open" THEN "closed" ELSE @,
              !.listener = "cleaned"]

\* A cleanup that runs on the paths that resolve only.
finallyOnResolve(l) ==
    IF l.exit = "error" THEN l
    ELSE [l EXCEPT !.uiWindow = IF @ = "open" THEN "closed" ELSE @,
                   !.uiConnection = IF @ = "open" THEN "closed" ELSE @,
                   !.listener = "cleaned"]

\* .finally(): if (uiWindow) uiWindow.close(); if (uiConnection)
\* uiConnection.close(); controllerError.cleanup().
finally(l) ==
    [l EXCEPT !.uiWindow = IF @ = "open" THEN "closed" ELSE @,
              !.uiConnection = IF @ = "open" THEN "closed" ELSE @,
              !.listener = "cleaned"]

\* The promise of requestLoginAccess settles: rejected, the finally runs
\* and the call raises; resolved, the finally runs, loggedIn is computed
\* from seedFound and this.pendingPermissions and handleLogin is called.
settle(l, how, err) ==
    LET f == finally([l EXCEPT !.exit = how]) IN
    IF how = "error"
    THEN [f EXCEPT !.pc = "done", !.result = err]
    ELSE handleLogin(f, loggedIn(f.seedFound, f.pending))

\* requestLoginAccess up to the await of connectUi: the window-error
\* listener is added and the UI is launched; launchUI throws when the
\* window could not be opened.
requestLoginAccess ==
    /\ login.pc \in {"idle", "done"}
    /\ login.n < MaxCalls
    /\ LET l == [StartLogin("requestLoginAccess") EXCEPT !.listener = "on"] IN
       \/ login' = [l EXCEPT !.pc = "connectUi", !.uiWindow = "open"]
       \/ login' = settle(l, "error", "WindowError")

\* uiConnection = await this.connectUi(uiWindow), then
\* call("requestLoginAccess", this.pendingPermissions); a failed handshake
\* raises.
connectUi ==
    /\ login.pc = "connectUi"
    /\ \/ login' = [login EXCEPT !.pc = "call", !.uiConnection = "open",
                                 !.sent = login.pending, !.awaiting = TRUE]
       \/ login' = settle(login, "error", "HandshakeError")

\* The UI answers the call: the response is on its way.
UI_respond ==
    /\ login.uiWindow = "open"
    /\ login.awaiting
    /\ ~login.response.sent
    /\ \E r \in PermissionResponses(login.sent) :
          login' = [login EXCEPT !.response = r]

\* A closed connection delivers nothing.
Delivers(conn) == conn = "open"

\* The response reaches the executor: seedFound and the permissions are
\* saved and resolve() is called, which settles the promise unless it has
\* settled already.
requestLoginAccess_response ==
    /\ login.awaiting
    /\ login.response.sent
    /\ Delivers(login.uiConnection)
    /\ LET r == login.response
           l == [login EXCEPT !.seedFound = r.seedFound,
                              !.granted = r.granted, !.pending = r.failed,
                              !.awaiting = FALSE, !.response = NoResponse,
                              !.got = r]
       IN login' = IF login.exit = "none" THEN settle(l, "success", "none")
                   ELSE l

\* The UI window is closed: catchError dispatches errorWindowClosed, and
\* the promise resolves without updating the permissions.
requestLoginAccess_windowClosed ==
    /\ login.pc = "call"
    /\ login' = settle(login, "closed", "none")

\* The call to the UI fails, or the UI reports another error through
\* catchError while the call is awaited: the promise is rejected.
requestLoginAccess_error ==
    /\ login.pc = "call"
    /\ \/ login' = settle([login EXCEPT !.awaiting = FALSE], "error", "RemoteError")
       \/ login' = settle(login, "error", "WindowError")

\* Login calls of one MySky instance next to the loading of DACs and to
\* permissions the skapp adds.
LoginNext ==
    \/ \E d \in Dacs : loadDacs(d) /\ UNCHANGED notLogin
    \/ \E d \in Dacs : loadDac(d) /\ UNCHANGED notLogin
    \/ \E p \in Permissions : MySky_addPermissions(p) /\ UNCHANGED notLogin
    \/ checkLogin /\ UNCHANGED notLogin
    \/ checkLogin_response /\ UNCHANGED notLogin
    \/ requestLoginAccess /\ UNCHANGED notLogin
    \/ connectUi /\ UNCHANGED notLogin
    \/ UI_respond /\ UNCHANGED notLogin
    \/ requestLoginAccess_response /\ UNCHANGED notLogin
    \/ requestLoginAccess_windowClosed /\ UNCHANGED notLogin
    \/ requestLoginAccess_error /\ UNCHANGED notLogin
    \/ handleLogin_await /\ UNCHANGED notLogin

LoginSpec == LoginInit /\ [][LoginNext]_vars

\* ------------------------------------------------------------ properties
\* The API calls that are MySky writes, and those that are setJSON calls of
\* either module.
IsMySkyWrite(c) == call[c].op \in MySkyWrites
IsSetJSON(c) == call[c].op \in {"setJSON", "dbSetJSON"}
Settled(c) == call[c].pc = "done"
Succeeded(c) == Settled(c) /\ call[c].result = "ok"

SuccessesDistinct ==
    \A c, d \in Calls :
        (c # d /\ IsSetJSON(c) /\ IsSetJSON(d) /\ Succeeded(c) /\ Succeeded(d)
              /\ call[c].key = call[d].key)
            => call[c].rev # call[d].rev

C3_OneCallbackPerKey ==
    \A k \in Keys :
        Cardinality({c \in Calls : call[c].key = k /\ call[c].pc \in LockHeld}) <= 1

\* A write is in its callback while a second write on the key is started.
C3_SecondWriteDuringCallback ==
    \E c, d \in Calls :
        /\ c # d /\ call[c].key = call[d].key
        /\ call[c].pc \in InCallback
        /\ call[d].pc = "waiting"

\* C4: the step in which a MySky write succeeds leaves the cached revision
\* of its key equal to the revision it published.
C4_CacheEqualsPublished ==
    [][\A c \in Calls :
          (IsMySkyWrite(c) /\ call[c].pc = "post" /\ call'[c].pc = "done"
                /\ call'[c].result = "ok")
            => cache'[call[c].key] = [known |-> TRUE, revision |-> call'[c].rev]]_vars

\* C5: a cached revision, once known, stays known and never decreases, and
\* an observe of a revision not above the cached one leaves the cache as it
\* is.
C5_CachedRevisionNeverDecreases ==
    [][/\ \A k \in Keys :
             cache[k].known =>
                 cache'[k].known /\ cache'[k].revision >= cache[k].revision
       /\ \A c \in Calls :
             (call[c].pc = "observe" /\ call'[c].pc = "done"
                   /\ cache[call[c].key].known
                   /\ call[c].rev <= cache[call[c].key].revision)
               => cache' = cache]_vars

\* A read that fetched an older revision than the cached one has shown it to
\* the cache.
C5_StaleReadObserved ==
    \E c \in Calls :
        /\ call[c].op = "getJSON" /\ Succeeded(c)
        /\ call[c].rev # NoEntry
        /\ cache[call[c].key].known
        /\ call[c].rev < cache[call[c].key].revision

\* C6: a step of a MySky write's callback in which the registry accepts
\* nothing leaves the cache as it is, and when the call settles in such a
\* step, it settles with the error that was raised.
C6_RaiseLeavesCache ==
    [][\A c \in Calls :
          (IsMySkyWrite(c) /\ call[c].pc \in {"callback"} \cup InCallback
                /\ call'[c] # call[c] /\ history' = history)
            => /\ cache' = cache
               /\ call'[c].pc = "done" => call'[c].result \in Errors]_vars

\* A MySky write whose callback raised has settled.
C6_WriteRaised ==
    \E c \in Calls :
        /\ IsMySkyWrite(c) /\ Settled(c)
        /\ call[c].result \in {"UploadError", "SignError", "ConflictError"}
        /\ cache[call[c].key].known

\* C7: the lock of a key is held only by a call that is inside
\* withCachedEntryLock on that key: a call that returned or raised holds
\* no lock.
C7_LockReleasedOnExit ==
    \A k \in Keys :
        holder[k] # 0 =>
            call[holder[k]].key = k /\ call[holder[k]].pc \in LockHeld

\* After a MySky write raised, a later write holds the lock of its key.
C7_LockTakenAfterRaise ==
    \E c, d \in Calls :
        /\ c # d /\ IsMySkyWrite(c) /\ Settled(c)
        /\ call[c].result \in Errors
        /\ holder[call[c].key] = d

C9_ConflictRefreshesCache ==
    [][\A c \in Calls :
          (IsMySkyWrite(c) /\ call[c].pc = "post" /\ call'[c].pc = "done"
                /\ call'[c].result = "ConflictError")
            => cache'[call[c].key] =
                   [known |-> TRUE, revision |-> registry'[call[c].key]]]_vars

\* C10: a call issues its publish request at most once, and when the
\* registry does not accept it the call settles in that step with a
\* ConflictError or a transport error.
C10_PublishAtMostOnce ==
    [][\A c \in Calls :
          call'[c].npub > call[c].npub
            => /\ call[c].npub = 0
               /\ history' = history
                    => /\ call'[c].pc = "done"
                       /\ call'[c].result \in {"ConflictError", "TransportError"}]_vars

\* A call whose one publish request was rejected or failed has settled.
C10_PublishFailedOnce ==
    \E c \in Calls :
        /\ Settled(c) /\ call[c].npub = 1
        /\ call[c].result \in {"ConflictError", "TransportError"}

\* C11: writers that share nothing but the registry (calls of the
\* key-signing setJSON, MySky writes, a writer of another process): the
\* registry takes a publish only with a revision strictly greater than the
\* stored one, a key-signing setJSON whose revision is stale settles with a
\* ConflictError unless the transport failed, and no two accepted writes carry
\* the same revision.
C11_RegistryIsTheSafetyNet ==
    [][/\ \A k \in Keys :
             history'[k] # history[k] =>
                 /\ registry'[k] > registry[k]
                 /\ history'[k] = Append(history[k], registry'[k])
                 /\ \A i \in 1..Len(history[k]) : history[k][i] # registry'[k]
       /\ \A c \in Calls :
             (call[c].pc = "dbSetEntry" /\ call'[c].pc = "done"
                   /\ call[c].rev <= registry[call[c].key])
               => /\ call'[c].result \in {"ConflictError", "TransportError"}
                  /\ registry' = registry]_vars

\* Of two key-signing setJSON calls on one key, one was accepted and the
\* other, stale, got a ConflictError.
C11_StaleClientConflicts ==
    \E c, d \in Calls :
        /\ c # d /\ call[c].op = "dbSetJSON" /\ call[d].op = "dbSetJSON"
        /\ call[c].key = call[d].key
        /\ Succeeded(c)
        /\ Settled(d) /\ call[d].result = "ConflictError"

\* C12: a MySky write whose cached revision is the maximum settles with an
\* error where it computes its revision, having issued no publish request
\* and with the registry unchanged; any other write computes a revision
\* above the cached one, and the registry never stores a revision above the
\* maximum.
C12_NoWraparound ==
    [][/\ \A c \in Calls :
             (IsMySkyWrite(c) /\ call[c].pc = "callback" /\ call'[c] # call[c])
               => IF cache[call[c].key].revision >= MaxRev
                  THEN /\ call'[c].pc = "done"
                       /\ call'[c].result = "RevisionError"
                       /\ call'[c].npub = 0
                       /\ registry' = registry /\ history' = history
                  ELSE /\ call'[c].rev > cache[call[c].key].revision
                       /\ call'[c].rev <= MaxRev
       /\ \A k \in Keys : registry'[k] <= MaxRev]_vars

\* A MySky write on a key whose cached revision is the maximum has failed
\* without a publish request.
C12_WriteAtMaximumFailed ==
    \E c \in Calls :
        /\ IsMySkyWrite(c) /\ Settled(c)
        /\ call[c].result = "RevisionError" /\ call[c].npub = 0
        /\ cache[call[c].key].revision = MaxRev
        /\ registry[call[c].key] = MaxRev

\* C13: a cache entry seeded while the registry has no entry for the key
\* holds the "no entry yet" value, which is not revision 0; and a write that
\* chooses its revision itself and is the first the registry accepts on the
\* key publishes revision 0.
C13_FirstWritePublishesZero ==
    [][/\ \A c \in Calls :
             (call[c].pc = "seed" /\ call'[c].pc = "callback"
                   /\ registry[call[c].key] = NoEntry)
               => /\ cache'[call[c].key] = [known |-> TRUE, revision |-> NoEntry]
                  /\ cache'[call[c].key].revision # 0
       /\ \A c \in Calls :
             (call[c].pc \in {"post", "dbSetEntry"} /\ NotRevision(call[c].arg)
                   /\ registry[call[c].key] = NoEntry
                   /\ call'[c].pc = "done" /\ call'[c].result = "ok")
               => /\ call'[c].rev = 0
                  /\ registry'[call[c].key] = 0]_vars

\* The first entry of a key was published by a MySky write, with revision 0.
C13_FirstWriteAccepted ==
    \E c \in Calls :
        /\ IsMySkyWrite(c) /\ Succeeded(c) /\ call[c].rev = 0
        /\ history[call[c].key] = <<0>>
        /\ cache[call[c].key].known

C15_TamperedEntryIsNotReturned ==
    \A c \in Calls :
        (call[c].op = "dbGetJSON" /\ io[c].bad)
          => /\ Settled(c) /\ call[c].result = "TrustError"
             /\ io[c].ret = NoReturn
             /\ io[c].link = Null

\* A getJSON on a key that has an entry received a tampered response and
\* raised.
C15_TamperedLookupRaised ==
    \E c \in Calls :
        /\ call[c].op = "dbGetJSON" /\ io[c].bad
        /\ Settled(c) /\ call[c].result = "TrustError"
        /\ entryData[call[c].key] \in Skylinks

\* C16: a getJSON whose lookup found no entry returns the object
\* {data: null, dataLink: null} without having asked the blob store, and a
\* getJSON whose lookup failed in the transport has returned nothing.
C16_AbsenceReturnsNullPair ==
    \A c \in Calls :
        call[c].op = "dbGetJSON" =>
            /\ (Succeeded(c) /\ io[c].link = Null)
                 => io[c].ret = [value |-> "object", data |-> Null, dataLink |-> Null]
            /\ (Settled(c) /\ call[c].result = "TransportError")
                 => io[c].ret = NoReturn

\* C17: a getJSON that found the entry a setJSON published returns an
\* object whose data is the document of that setJSON and whose dataLink is
\* not empty.
C17_RoundTrip ==
    \A c \in Calls :
        (call[c].op = "dbGetJSON" /\ Succeeded(c) /\ io[c].link # Null)
          => /\ io[c].ret.value = "object"
             /\ io[c].ret.data = getFileContent(io[c].link)
             /\ io[c].ret.dataLink \notin {Null, Undefined}

\* C18: a deleteJSON that succeeds leaves the deletion data in the entry; a
\* getJSON whose lookup receives that entry returns {data: null,
\* dataLink: null}; a setJSON that is accepted over the deleted entry carries
\* a higher revision and leaves the link of its document in the entry, and
\* the getJSON that fetches it returns that document.
C18_DeleteThenRead ==
    [][/\ \A c \in Calls :
             (call[c].op = "setEntryData" /\ call[c].pc = "post"
                   /\ call'[c].result = "ok")
               => entryData'[call[c].key] = DELETION_ENTRY_DATA
       /\ \A c \in Calls :
             (call[c].pc = "gjLookup" /\ call'[c] # call[c]
                   /\ entryData[call[c].key] = DELETION_ENTRY_DATA
                   /\ ~io'[c].bad /\ call'[c].result # "TransportError")
               => /\ call'[c].pc = "done" /\ call'[c].result = "ok"
                  /\ io'[c].ret = [value |-> "object", data |-> Null,
                                   dataLink |-> Null]
       /\ \A c \in Calls :
             (call[c].pc = "dbSetEntry" /\ call'[c].result = "ok"
                   /\ entryData[call[c].key] = DELETION_ENTRY_DATA)
               => /\ registry'[call[c].key] > registry[call[c].key]
                  /\ entryData'[call[c].key] = SkylinkOf[io[c].json]
       /\ \A c \in Calls :
             (call[c].pc = "gjDownload" /\ call'[c].result = "ok")
               => SkylinkOf[io'[c].ret.value] = io[c].link]_vars

\* C19: a setEntryData whose data is longer than MAX_ENTRY_LENGTH settles
\* with a validation error in the step of its call: it never asks for the
\* user ID, never waits for or holds the lock, never signs or publishes, and
\* the step leaves registry, cache, locks and queues as they are.
C19_LongDataRejectedFirst ==
    [][/\ \A c \in Calls :
             (call[c].op = "setEntryData" /\ io[c].len > MAX_ENTRY_LENGTH)
               => /\ call[c].pc = "done"
                  /\ call[c].result = "ValidationError"
                  /\ call[c].npub = 0
       /\ \A c \in Calls :
             (call'[c] # call[c] /\ io'[c].len > MAX_ENTRY_LENGTH)
               => /\ call'[c].pc = "done"
                  /\ registry' = registry /\ cache' = cache
                  /\ holder' = holder /\ queue' = queue
                  /\ history' = history]_vars

\* A setEntryData with data one byte above the maximum was rejected while
\* another write on the key was in its callback.
C19_LongDataRejected ==
    \E c, d \in Calls :
        /\ io[c].len = MAX_ENTRY_LENGTH + 1
        /\ Settled(c) /\ call[c].result = "ValidationError"
        /\ call[d].pc \in InCallback /\ io[d].len = MAX_ENTRY_LENGTH

\* C20: a write that waits at the head of the queue of its key while the
\* lock of that key is free can take it, whatever the locks of the other
\* keys are; and a step of a call changes the cached revision, the lock, the
\* queue and the registry entry of no key but its own.
C20_KeysAreIndependent ==
    [][/\ \A c \in Calls :
             (call[c].pc = "waiting" /\ Head(queue[call[c].key]) = c
                   /\ holder[call[c].key] = 0)
               => ENABLED (withCachedEntryLock_acquire(c) /\ UNCHANGED <<docVars, clientVars>>)
       /\ \A c \in Calls :
             (call'[c] # call[c])
               => \A k \in Keys \ {call'[c].key} :
                     /\ cache'[k] = cache[k]
                     /\ holder'[k] = holder[k]
                     /\ queue'[k] = queue[k]
                     /\ registry'[k] = registry[k]]_vars

\* Two writes on different keys are in their callbacks at once.
C20_CallbacksOverlap ==
    \E c, d \in Calls :
        /\ call[c].key # call[d].key
        /\ call[c].pc \in InCallback
        /\ call[d].pc \in InCallback

\* C21: a write whose caller stopped waiting and that holds the lock of its
\* key leaves withCachedEntryLock with the lock released, and when it
\* leaves with success its one publish request was accepted and the cached
\* revision of the key is the revision it published.
C21_AbandonedWriteCommits ==
    [][\A c \in Calls :
          (IsMySkyWrite(c) /\ ~call[c].waited /\ call[c].pc \in LockHeld
                /\ call'[c].pc = "done")
            => /\ holder'[call[c].key] = 0
               /\ call'[c].result = "ok"
                    => /\ call'[c].npub = 1
                       /\ registry'[call[c].key] = call'[c].rev
                       /\ cache'[call[c].key] =
                              [known |-> TRUE, revision |-> call'[c].rev]]_vars

\* C22: no setJSON call holds the lock of its key while its upload is in
\* flight, and the step in which an upload fails leaves every lock and the
\* cache as they are.
C22_UploadBeforeLock ==
    [][\A c \in Calls :
          /\ call'[c].pc \in {"upload", "dbUpload"}
                => holder'[call'[c].key] # c
          /\ (call[c].pc \in {"upload", "dbUpload"} /\ call'[c].pc = "done"
                /\ call'[c].result = "UploadError")
                => holder' = holder /\ cache' = cache]_vars

\* C30: the step in which a MySky write starts while another write holds
\* the lock of its key settles the call with an error, no publish request
\* issued: the call does not wait for the lock.
C30_WriteFailsWhenLockHeld ==
    [][\A c \in Calls :
          (call[c].pc \in {"idle", "done"} /\ call'[c].pc # call[c].pc
                /\ call'[c].op \in MySkyWrites
                /\ holder[call'[c].key] # 0)
            => /\ call'[c].pc = "done"
               /\ call'[c].result # "ok"
               /\ call'[c].npub = 0]_vars

C29_EntryLinkResolution ==
    [][\A c \in Calls :
          (call[c].pc = "resolve" /\ call'[c] # call[c])
            => /\ call'[c].pc = "done"
               /\ call'[c].result # "TransportError" =>
                     IF entryData[call[c].key] \in {Null, DELETION_ENTRY_DATA}
                     THEN /\ call'[c].result = "NotFoundError"
                          /\ io'[c].ret = NoReturn
                     ELSE /\ call'[c].result = "ok"
                          /\ SkylinkOf[io'[c].ret.value] = entryData[call[c].key]
               /\ registry' = registry /\ entryData' = entryData]_vars

\* The download of the entry link of a deleted entry has raised the
\* not-found error, and a download of the same link returned a document
\* before.
C29_DeletedEntryNotFound ==
    \E c, d \in Calls :
        /\ c # d
        /\ call[c].op = "getFileContent" /\ call[d].op = "getFileContent"
        /\ call[c].key = call[d].key
        /\ Settled(c) /\ call[c].result = "NotFoundError"
        /\ Succeeded(d) /\ io[d].ret.value \in Docs
        /\ entryData[call[c].key] = DELETION_ENTRY_DATA

\* C27: the request that resolves the portal URL is issued at most once by
\* all clients together; a client constructed with a portal URL issues none,
\* and its portalUrl() returns the given URL.
C27_PortalRequestOnce ==
    /\ \A cl, cm \in Clients :
          cl # cm => requests[cl] + requests[cm] <= 1
    /\ \A cl \in Clients : givenPortalUrl[cl] # "" => requests[cl] = 0
    /\ \A c \in Calls :
          (portalCall[c].op = "portalUrl" /\ portalCall[c].pc = "done"
                /\ givenPortalUrl[portalCall[c].client] # "")
            => /\ portalCall[c].result = "ok"
               /\ portalCall[c].ret = givenPortalUrl[portalCall[c].client]

\* C28: at most one connector is initialised, and all calls of MySky.New
\* that returned have returned the same instance.
C28_Singleton ==
    /\ connectors <= 1
    /\ \A c, d \in Calls :
          (mySkyCall[c].result = "ok" /\ mySkyCall[d].result = "ok")
            => mySkyCall[c].instance = mySkyCall[d].instance

\* C24: for every payload b of the fixed size, format(decode(format(b)))
\* is format(b), and parse(format(b) + "/x/y") yields the link format(b)
\* and the path "/x/y".
C24_LinkRoundTrip ==
    Len(codec.payload) = RawBytes =>
        /\ codec.stage # "raised"
        /\ codec.stage \in {"formattedAgain", "parsed"}
              => /\ codec.again = codec.text
                 /\ codec.bytes = codec.payload
        /\ codec.stage = "parsed"
              => /\ codec.link = codec.text
                 /\ codec.path = <<"/", "x", "/", "y">>

\* A payload whose last byte is not zero went through format, decode,
\* format and parse.
C24_PayloadRoundTripped ==
    /\ codec.stage = "parsed"
    /\ Len(codec.payload) = RawBytes
    /\ codec.payload[RawBytes] # 0
    /\ Len(codec.text) = LinkLen

HasAttachment(url) ==
    Len(url) >= 1 /\ SubSeq(url, Len(url), Len(url)) = attachmentQuery

\* C25: getSkylinkUrl, called without the download option in effect, returns
\* for every accepted input form portalUrl + "/" + skylink + path, the query
\* and the fragment of the input dropped; for an input in which no skylink is
\* recognized the parser returns null and getSkylinkUrl raises and returns
\* no URL.
C25_SkylinkUrlOfEveryForm ==
    (/\ download.op = "getSkylinkUrl"
     /\ mergeDownload(download.clientOpt, download.opt) = "false")
        => IF download.input.valid
           THEN /\ download.err = "none"
                /\ download.url = portalUrlText \o <<"/">>
                                    \o download.input.link \o download.input.path
           ELSE /\ parse(download.text, "includePath") = Null
                /\ download.err = "Error"
                /\ download.url = <<>>

\* getSkylinkUrl returned for a link in a portal URL with a path, a query and
\* a fragment.
C25_PortalUrlWithPathAndQuery ==
    /\ download.op = "getSkylinkUrl"
    /\ mergeDownload(download.clientOpt, download.opt) = "false"
    /\ download.input.valid
    /\ download.input.prefix = portalUrlText \o <<"/">>
    /\ download.input.path # <<>>
    /\ download.input.query # <<>>
    /\ download.input.fragment # <<>>
    /\ download.err = "none"

\* C26: the URL downloadFile returns always carries attachment=true and the
\* URL openFile returns never does, whatever `download` the caller passes.
C26_DownloadOptionOverridden ==
    /\ (download.op = "downloadFile" /\ download.err = "none")
          => HasAttachment(download.url)
    /\ (download.op = "openFile" /\ download.err = "none")
          => ~HasAttachment(download.url)

\* C31: a MySky write issues a publish request only for the entry its
\* signing request returned a signature for (same dataKey, data and
\* revision), and a write whose signing request raised has issued no
\* publish request.
C31_SignedBeforePublished ==
    [][\A c \in Calls :
          /\ (IsMySkyWrite(c) /\ call'[c].npub > call[c].npub)
                => call[c].signed = [key |-> call[c].key,
                                     rev |-> call[c].rev,
                                     data |-> io[c].link]
          /\ call'[c].result = "SignError" => call'[c].npub = 0]_vars

\* One setJSON published the entry it had signed, with the data link of its
\* upload, and the signing request of another write was refused.
C31_PublishedSignedEntry ==
    \E c, d \in Calls :
        /\ call[c].op = "setJSON" /\ call[c].result = "ok"
        /\ call[c].npub = 1
        /\ call[c].signed.data \in Skylinks
        /\ call[c].signed.rev = call[c].rev
        /\ call[d].result = "SignError" /\ call[d].npub = 0

\* C36: a key-signing setJSON whose lookup received an entry that fails
\* signature verification has raised and has issued no setEntry request.
C36_UnverifiedEntryNotBuiltOn ==
    \A c \in Calls :
        (call[c].op = "dbSetJSON" /\ io[c].bad)
            => /\ call[c].pc = "done"
               /\ call[c].result = "TrustError"
               /\ call[c].npub = 0

\* The lookup of a setJSON on a key with an entry received an entry whose
\* signature does not verify.
C36_TamperedLookupInSetJSON ==
    \E c \in Calls :
        /\ call[c].op = "dbSetJSON" /\ io[c].bad
        /\ registry[call[c].key] # NoEntry
        /\ call[c].result = "TrustError"

\* C40: a key-signing setJSON that was given a revision, 0 included, goes
\* from its upload to setEntry with that revision and makes no lookup; a
\* setJSON without revision derives it in the lookup as the revision of the
\* current entry + 1, or 0 without entry.
C40_SuppliedRevisionPublished ==
    [][\A c \in Calls :
          /\ (call[c].pc = "dbUpload" /\ call[c].arg # NoArg
                /\ call'[c].pc \notin {"dbUpload", "done"})
                => /\ call'[c].pc = "dbSetEntry"
                   /\ call'[c].rev = call[c].arg
          /\ (call[c].pc = "dbLookup" /\ call'[c].pc = "dbSetEntry")
                => /\ call[c].arg = NoArg
                   /\ call'[c].rev = IF registry[call[c].key] = NoEntry
                                     THEN 0
                                     ELSE registry[call[c].key] + 1]_vars

\* C39: getSkylinkUrl, getHnsUrl, downloadFile and downloadFileHns leave the
\* query object the caller passed as it was, and a getSkylinkUrl call with
\* that object and download = false returns a URL without attachment.
C39_QueryObjectUnchanged ==
    [][/\ callerQuery'.obj = callerQuery.obj
       /\ \A i \in 1..Len(callerQuery'.calls) :
             LET made == callerQuery'.calls[i] IN
             (made.op = "getSkylinkUrl" /\ ~made.dl)
                => ~HasAttachment(made.url)]_vars

\* C38: every call of portalUrl() on a client constructed without a portal
\* URL that awaits the shared promise eventually resolves or rejects.
C38_PortalUrlSettles ==
    \A c \in Calls :
        (/\ portalCall[c].pc = "await"
         /\ portalCall[c].op = "portalUrl"
         /\ givenPortalUrl[portalCall[c].client] = "")
            ~> portalCall[c].pc = "done"

C33_CleanupOnEveryExit ==
    (login.op = "requestLoginAccess" /\ login.pc \in {"handleLogin", "done"})
        => /\ login.exit \in {"success", "closed", "error"}
           /\ login.uiWindow # "open"
           /\ login.uiConnection # "open"
           /\ login.listener = "cleaned"

\* requestLoginAccess raised after the window was opened and the connection
\* established.
C33_RaisedAfterConnecting ==
    /\ login.op = "requestLoginAccess"
    /\ login.pc = "done"
    /\ login.exit = "error"
    /\ login.uiWindow = "closed"
    /\ login.uiConnection = "closed"

\* C34: a login call returns true exactly when its permission response
\* reported a seed and no failed permission, and handleLogin invokes
\* onUserLogin exactly for the calls that return true.
C34_LoginResult ==
    /\ login.pc = "handleLogin"
          => login.got.sent /\ login.got.seedFound /\ login.got.failed = {}
    /\ (login.pc = "done" /\ login.result \in {"true", "false"})
          => /\ login.result = "true"
                  <=> (login.got.sent /\ login.got.seedFound
                          /\ login.got.failed = {})
             /\ login.handled <=> login.result = "true"
    /\ login.invoked # {} => login.handled

\* requestLoginAccess returned false for a response with a seed and a
\* failed permission, and true, with onUserLogin invoked, for one without.
C34_SeedWithFailedPermission ==
    /\ login.op = "requestLoginAccess"
    /\ login.pc = "done"
    /\ login.result = "false"
    /\ login.got.seedFound
    /\ login.got.failed # {}
    /\ ~login.handled

\* C35: handleLogin with loggedIn true invokes onUserLogin on every DAC of
\* this.dacs, and the login call returns true whichever of them raised.
C35_DacErrorsDoNotFailLogin ==
    [][/\ (login'.handled /\ ~login.handled)
             => login'.invoked = login.dacs
       /\ (login'.pc = "done" /\ login'.handled)
             => login'.result = "true"]_vars

\* Two DACs were invoked, onUserLogin of one raised, and the login call
\* returned true.
C35_OneDacRaised ==
    /\ login.pc = "done"
    /\ login.handled
    /\ login.result = "true"
    /\ login.invoked = Dacs
    /\ login.raised # {}
    /\ login.raised # login.invoked

\* C37: a pending permission leaves pendingPermissions only when it was
\* sent with the login call and the response reports it granted, and no
\* login call ends with true while a permission is pending.
C37_AddedPermissionStaysPending ==
    [][/\ \A p \in login.pending :
             p \notin login'.pending
                => (p \in login.sent /\ p \in login'.granted)
       /\ (login'.pc = "handleLogin" /\ login.pc # "handleLogin")
             => login'.pending = {}]_vars
====
